---- MODULE Spec2Model ----
(***************************************************************************)
(* A model of GoTrust: the in-process expiring store (session.go), the    *)
(* OAuth state handling of OAuthManager (oauth.go) and the JWT manager     *)
(* (jwt.go).                                                               *)
(*                                                                         *)
(* Time is a wall clock counted in ticks, TicksPerSecond ticks to the      *)
(* second, so that time.Time.Unix(), which drops the sub-second part, is   *)
(* a real conversion.  Random identifiers (generateRandomString) are       *)
(* modelled as fresh: the n-th identifier drawn is n.                      *)
(***************************************************************************)
EXTENDS Integers, Sequences, FiniteSets, TLC

VARIABLES
    now,        \* time.Now(), in ticks
    store,      \* MemorySessionStore.store: key -> memoryItem
    config,     \* the *Config shared by the managers
    nextState,  \* the next fresh value of generateRandomString
    issued,     \* history: state value -> the OAuthState GetAuthURL stored for it
    pc,         \* per caller: where it is inside ValidateCallback
    req,        \* per caller: the arguments of its ValidateCallback
    stateData,  \* per caller: validateState's local stateData
    ret,        \* what the last call returned and which call it was; none once a new call has begun
    passCount,  \* history: state value -> how often validateState returned no error for it
    mgr,        \* the JWT managers: name -> its secret, issuer and expiresIn
    tok,        \* the token string at hand: the last one issued or forged
    origin,     \* history: how tok came about
    jres,       \* what the last call that was given tok returned, by whom and when
    users,      \* the UserStore: email -> User
    nextSession,\* the next fresh session id of generateRandomString
    latest,     \* history: key -> the latest Set of it and whether a Delete followed
    sres,       \* what the last direct call of the store returned
    mu,         \* MemorySessionStore.mu: who holds the RWMutex, and how
    mlog,       \* history: the last mutation of the map, and under which lock it was made
    passwords,  \* the UserStore: email -> password hash
    nextUser,   \* the next fresh user id of generateRandomString
    frame,      \* per caller: the locals of its AuthService or SessionManager call
    ares,       \* what the last AuthService or SessionManager call returned
    signedUp,   \* history: email -> how many SignUp calls have returned a response for it
    redis,      \* the keys of the Redis server behind a RedisSessionStore
    http        \* the request of the HTTP handler in flight, and what it answered

oauthVars == <<config, nextState, issued, pc, req, stateData, ret, passCount>>
jwtVars == <<mgr, tok, origin, jres, users, nextSession>>
kvVars == <<latest, sres, redis>>
lockVars == <<mu, mlog>>
authVars == <<passwords, nextUser, frame, ares, signedUp, http>>
vars == <<now, store, oauthVars, jwtVars, kvVars, lockVars, authVars>>

----------------------------------------------------------------------------
(* Bounds of the model *)

MaxTime == 4
TicksPerSecond == 2
MaxStates == 2

Callers == {"c1", "c2"}

----------------------------------------------------------------------------
(* Finite maps *)

Put(m, k, v) == [x \in (DOMAIN m) \cup {k} |-> IF x = k THEN v ELSE m[x]]

Remove(m, ks) == [x \in (DOMAIN m) \ ks |-> m[x]]

EmptyMap == [x \in {} |-> 0]

----------------------------------------------------------------------------
(* encoding/json as the stores use it: the value travels as bytes *)

Marshal(value) == <<"json", value>>

Unmarshal(data) == data[2]

----------------------------------------------------------------------------
(* MemorySessionStore *)

\* time.Time.After
After(t, u) == t > u

MemorySessionStore_Set(st, key, value, expiration, t) ==
    Put(st, key, [value |-> Marshal(value), expiresAt |-> t + expiration])

\* a Get that empties the map when the key is missing
Get_clearsOnMiss(st, key, t) ==
    IF key \notin DOMAIN st
    THEN [err |-> "key not found", found |-> FALSE, dest |-> <<>>, store |-> [x \in {} |-> 0]]
    ELSE IF t > st[key].expiresAt
    THEN [err |-> "key expired", found |-> FALSE, dest |-> <<>>, store |-> Remove(st, {key})]
    ELSE [err |-> "", found |-> TRUE, dest |-> Unmarshal(st[key].value), store |-> st]

\* a Get that does not look at expiresAt
Get_stale(st, key, t) ==
    IF key \notin DOMAIN st
    THEN [err |-> "key not found", found |-> FALSE, dest |-> <<>>, store |-> st]
    ELSE [err |-> "", found |-> TRUE, dest |-> Unmarshal(st[key].value), store |-> st]

\* Get returns (dest, err) and, for an expired item, deletes it from the map.
MemorySessionStore_Get(st, key, t) ==
    IF key \notin DOMAIN st
    THEN [err |-> "key not found", found |-> FALSE, dest |-> <<>>, store |-> st]
    ELSE IF After(t, st[key].expiresAt)
    THEN [err |-> "key expired", found |-> FALSE, dest |-> <<>>, store |-> Remove(st, {key})]
    ELSE [err |-> "", found |-> TRUE, dest |-> Unmarshal(st[key].value), store |-> st]

\* a Delete that forgets to delete
Delete_noop(st, keys) == st

MemorySessionStore_Delete(st, keys) == Remove(st, keys)

MemorySessionStore_Exists(st, keys, t) ==
    \E key \in keys : key \in DOMAIN st /\ ~After(t, st[key].expiresAt)

\* a cleanup that spares what has expired within the last tick
cleanup_late(st, t) == Remove(st, {key \in DOMAIN st : After(t, st[key].expiresAt + 1)})

\* one tick of the cleanup goroutine's ticker
cleanup(st, t) == Remove(st, {key \in DOMAIN st : After(t, st[key].expiresAt)})

----------------------------------------------------------------------------
(* OAuthManager *)

ProviderGoogle == "google"
ProviderGitHub == "github"
ProviderLocal == "local"
Providers == {ProviderGoogle, ProviderGitHub, ProviderLocal}

RedirectURIs == {"https://app/a", "https://app/b"}
Codes == {"code1"}

statePrefix == "oauth:state"

\* a key that leaves the state value out, so that all states share one record
StateKey_prefixOnly(state) == <<statePrefix, 0>>

\* fmt.Sprintf("%s:%s", o.statePrefix, state)
StateKey(state) == <<statePrefix, state>>

NoUser == [ID |-> "", Email |-> "", Name |-> "", AvatarURL |-> "", Provider |-> ""]

ErrStateNotFound == "invalid state: state not found or expired"
ErrStateExpired == "invalid state: state expired"
StateErrors == {ErrStateNotFound, ErrStateExpired}

NoRet == [op |-> "", state |-> 0, passed |-> FALSE, url |-> <<>>,
          userInfo |-> NoUser, redirectURI |-> "", err |-> ""]

getGoogleAuthURL(cfg, state) ==
    IF cfg.GoogleClientID = ""
    THEN [url |-> <<>>, err |-> "Google OAuth not configured"]
    ELSE [url |-> <<"https://accounts.google.com/o/oauth2/auth", cfg.GoogleClientID, state>>,
          err |-> ""]

\* getGitHubAuthURL as it would be without the check of the client id
getGitHubAuthURL_unchecked(cfg, state) ==
    [url |-> <<"https://github.com/login/oauth/authorize", cfg.GitHubClientID, state>>,
     err |-> ""]

getGitHubAuthURL(cfg, state) ==
    IF cfg.GitHubClientID = ""
    THEN [url |-> <<>>, err |-> "GitHub OAuth not configured"]
    ELSE [url |-> <<"https://github.com/login/oauth/authorize", cfg.GitHubClientID, state>>,
          err |-> ""]

\* GetAuthURL stores the state record, then builds the provider's URL.
GetAuthURL(provider, redirectURI) ==
    /\ nextState <= MaxStates
    /\ LET state == nextState
           sd == [State |-> state, RedirectURI |-> redirectURI,
                  ExpiresAt |-> now + config.OAuthStateExpiration]
           built == IF provider = ProviderGoogle THEN getGoogleAuthURL(config, state)
                    ELSE IF provider = ProviderGitHub THEN getGitHubAuthURL(config, state)
                    ELSE [url |-> <<>>, err |-> "unsupported provider"]
       IN /\ store' = MemorySessionStore_Set(store, StateKey(state), sd,
                                             config.OAuthStateExpiration, now)
          /\ issued' = Put(issued, state, sd)
          /\ nextState' = nextState + 1
          /\ ret' = [NoRet EXCEPT !.op = "GetAuthURL", !.state = state,
                                  !.url = built.url, !.err = built.err]
    /\ UNCHANGED <<now, config, pc, req, stateData, passCount>>
    /\ UNCHANGED <<jwtVars, kvVars, lockVars, authVars>>

----------------------------------------------------------------------------
(* The provider endpoints: what an HTTP exchange can answer *)

Digit == [d \in 0..9 |-> CASE d = 0 -> "0" [] d = 1 -> "1" [] d = 2 -> "2" [] d = 3 -> "3"
                           [] d = 4 -> "4" [] d = 5 -> "5" [] d = 6 -> "6" [] d = 7 -> "7"
                           [] d = 8 -> "8" [] d = 9 -> "9"]

RECURSIVE Itoa(_)
\* fmt.Sprintf("%d", n) for n >= 0
Itoa(n) == IF n < 10 THEN Digit[n] ELSE Itoa(n \div 10) \o Digit[n % 10]

HTTPKinds == {"neterr", "status", "badjson", "ok"}

TokenResponses == [kind : HTTPKinds, access_token : {"at"}]

NoProfile == [id |-> 0, sid |-> "", login |-> "", email |-> "", name |-> "", picture |-> ""]

GoogleProfiles ==
    {[id |-> 0, sid |-> "g1", login |-> "", email |-> "ann@x", name |-> "Ann", picture |-> "pic"]}

GitHubProfiles ==
    {[id |-> 42, sid |-> "", login |-> "bob", email |-> "bob@x", name |-> "", picture |-> "pic"]}

\* the same profiles, and each of them with its e-mail address kept private
PrivateProfiles(profiles) ==
    profiles \cup {[profile EXCEPT !.email = ""] : profile \in profiles}

UserResponses(profiles) == [kind : HTTPKinds, profile : profiles]

MaxEmails == 2
EmailEntries == [Email : {"p@x", "q@x"}, Primary : BOOLEAN, Verified : BOOLEAN]
EmailLists == UNION {[1..n -> EmailEntries] : n \in 0..MaxEmails}
EmailResponses == [kind : HTTPKinds, emails : EmailLists]

\* what both callbacks do with the answers of the token and the profile endpoint,
\* up to the decoded profile: the first failure is returned
exchangeError(tokenResp, userResp) ==
    IF tokenResp.kind = "neterr" THEN "failed to exchange code"
    ELSE IF tokenResp.kind = "status" THEN "token exchange failed with status"
    ELSE IF tokenResp.kind = "badjson" THEN "failed to parse token response"
    ELSE IF userResp.kind = "neterr" THEN "failed to get user info"
    ELSE IF userResp.kind = "status" THEN "user info request failed with status"
    ELSE IF userResp.kind = "badjson" THEN "failed to parse user info"
    ELSE ""

handleGoogleCallback(code, tokenResp, userResp) ==
    IF exchangeError(tokenResp, userResp) # ""
    THEN [userInfo |-> NoUser, err |-> exchangeError(tokenResp, userResp)]
    ELSE [userInfo |-> [ID |-> userResp.profile.sid,
                        Email |-> userResp.profile.email,
                        Name |-> userResp.profile.name,
                        AvatarURL |-> userResp.profile.picture,
                        Provider |-> ProviderGoogle],
          err |-> ""]

\* the index of the first primary verified email, 0 when there is none
FirstPrimaryVerified(emails) ==
    IF \E i \in 1..Len(emails) : emails[i].Primary /\ emails[i].Verified
    THEN CHOOSE i \in 1..Len(emails) :
            /\ emails[i].Primary /\ emails[i].Verified
            /\ \A j \in 1..(i - 1) : ~(emails[j].Primary /\ emails[j].Verified)
    ELSE 0

\* the index of the first verified email, 0 when there is none
FirstVerified(emails) ==
    IF \E i \in 1..Len(emails) : emails[i].Verified
    THEN CHOOSE i \in 1..Len(emails) :
            emails[i].Verified /\ \A j \in 1..(i - 1) : ~emails[j].Verified
    ELSE 0

\* getGitHubEmail as it would be if its first loop took the first primary
\* entry, verified or not
getGitHubEmail_firstPrimary(accessToken, emailResp) ==
    IF emailResp.kind = "neterr" THEN [email |-> "", err |-> "transport error"]
    ELSE IF emailResp.kind = "status" THEN [email |-> "", err |-> "email request failed"]
    ELSE IF emailResp.kind = "badjson" THEN [email |-> "", err |-> "invalid json"]
    ELSE LET emails == emailResp.emails
             primaries == {i \in 1..Len(emails) : emails[i].Primary}
             j == FirstVerified(emails)
         IN IF primaries # {}
            THEN [email |-> emails[CHOOSE i \in primaries :
                                      \A k \in primaries : i <= k].Email, err |-> ""]
            ELSE IF j # 0 THEN [email |-> emails[j].Email, err |-> ""]
            ELSE [email |-> "", err |-> "no verified email found"]

getGitHubEmail(accessToken, emailResp) ==
    IF emailResp.kind = "neterr" THEN [email |-> "", err |-> "transport error"]
    ELSE IF emailResp.kind = "status" THEN [email |-> "", err |-> "email request failed"]
    ELSE IF emailResp.kind = "badjson" THEN [email |-> "", err |-> "invalid json"]
    ELSE LET emails == emailResp.emails
             i == FirstPrimaryVerified(emails)
             j == FirstVerified(emails)
         IN IF i # 0 THEN [email |-> emails[i].Email, err |-> ""]
            ELSE IF j # 0 THEN [email |-> emails[j].Email, err |-> ""]
            ELSE [email |-> "", err |-> "no verified email found"]

handleGitHubCallback(code, tokenResp, userResp, emailResp) ==
    IF exchangeError(tokenResp, userResp) # ""
    THEN [userInfo |-> NoUser, err |-> exchangeError(tokenResp, userResp)]
    ELSE LET githubUser == userResp.profile
             looked == getGitHubEmail(tokenResp.access_token, emailResp)
             email == IF githubUser.email = "" /\ looked.err = ""
                      THEN looked.email ELSE githubUser.email
             displayName == IF githubUser.name = "" THEN githubUser.login
                            ELSE githubUser.name
         IN [userInfo |-> [ID |-> Itoa(githubUser.id), Email |-> email,
                           Name |-> displayName, AvatarURL |-> githubUser.picture,
                           Provider |-> ProviderGitHub],
             err |-> ""]

\* answers of the e-mail endpoint for a sign-in: each failure, no address at
\* all, an address that is not verified, a verified one
SignInEmailResponses ==
    {[kind |-> kind, emails |-> <<>>] : kind \in HTTPKinds}
        \cup {[kind |-> "ok",
                emails |-> <<[Email |-> "p@x", Primary |-> TRUE, Verified |-> verified]>>] :
                  verified \in BOOLEAN}

----------------------------------------------------------------------------
(* ValidateCallback, one caller's call, step by step.  validateState takes the *)
(* store's lock twice (Get, then Delete), so other callers' steps and the      *)
(* clock may come between its steps.                                           *)

NoReq == [provider |-> "", state |-> 0, code |-> ""]
NoStateData == [State |-> 0, RedirectURI |-> "", ExpiresAt |-> 0]

Idle == \A p \in Callers : pc[p] = "idle"

\* the caller's frame is gone when the call returns
Return(p, r) ==
    /\ ret' = r
    /\ pc' = [pc EXCEPT ![p] = "idle"]
    /\ req' = [req EXCEPT ![p] = NoReq]
    /\ stateData' = [stateData EXCEPT ![p] = NoStateData]

\* a caller enters ValidateCallback(provider, state, code)
ValidateCallback(p, provider, state, code) ==
    /\ pc[p] = "idle"
    /\ pc' = [pc EXCEPT ![p] = "validateState_Get"]
    /\ req' = [req EXCEPT ![p] = [provider |-> provider, state |-> state, code |-> code]]
    /\ ret' = NoRet
    /\ UNCHANGED <<now, store, config, nextState, issued, stateData, passCount>>
    /\ UNCHANGED <<jwtVars, kvVars, lockVars, authVars>>

\* validateState: o.sessionStore.Get(ctx, stateKey, &stateData)
validateState_Get(p) ==
    /\ pc[p] = "validateState_Get"
    /\ LET got == MemorySessionStore_Get(store, StateKey(req[p].state), now)
       IN /\ store' = got.store
          /\ IF got.err # ""
             THEN Return(p, [NoRet EXCEPT !.op = "ValidateCallback", !.state = req[p].state,
                                          !.err = ErrStateNotFound])
             ELSE /\ stateData' = [stateData EXCEPT ![p] = got.dest]
                  /\ pc' = [pc EXCEPT ![p] = "validateState_Delete"]
                  /\ UNCHANGED <<req, ret>>
    /\ UNCHANGED <<now, config, nextState, issued, passCount>>
    /\ UNCHANGED <<jwtVars, kvVars, lockVars, authVars>>

\* a validateState that leaves the record for after the exchange
validateState_Delete_late(p) ==
    /\ pc[p] = "validateState_Delete"
    /\ pc' = [pc EXCEPT ![p] = "validateState_Expiry"]
    /\ UNCHANGED <<now, store, config, nextState, issued, req, stateData, ret, passCount>>
    /\ UNCHANGED <<jwtVars, kvVars, lockVars, authVars>>

\* validateState: o.sessionStore.Delete(ctx, stateKey), its error dropped
validateState_Delete(p) ==
    /\ pc[p] = "validateState_Delete"
    /\ store' = MemorySessionStore_Delete(store, {StateKey(req[p].state)})
    /\ pc' = [pc EXCEPT ![p] = "validateState_Expiry"]
    /\ UNCHANGED <<now, config, nextState, issued, req, stateData, ret, passCount>>
    /\ UNCHANGED <<jwtVars, kvVars, lockVars, authVars>>

\* validateState: the check of stateData.ExpiresAt, and its return
validateState_Expiry(p) ==
    /\ pc[p] = "validateState_Expiry"
    /\ IF After(now, stateData[p].ExpiresAt)
       THEN /\ Return(p, [NoRet EXCEPT !.op = "ValidateCallback", !.state = req[p].state,
                                       !.err = ErrStateExpired])
            /\ UNCHANGED passCount
       ELSE /\ passCount' = [passCount EXCEPT ![req[p].state] = @ + 1]
            /\ pc' = [pc EXCEPT ![p] = "exchange"]
            /\ UNCHANGED <<req, stateData, ret>>
    /\ UNCHANGED <<now, store, config, nextState, issued>>
    /\ UNCHANGED <<jwtVars, kvVars, lockVars, authVars>>

\* ValidateCallback after validateState: the provider exchange and the return.
\* The e-mail endpoint is asked only when the profile came back without e-mail.
exchangeOf(p, googleProfiles, gitHubProfiles, emailResponses) ==
    /\ pc[p] = "exchange"
    /\ \E tokenResp \in TokenResponses :
          LET Returned(r) ==
                  Return(p, [op |-> "ValidateCallback", state |-> req[p].state,
                             passed |-> TRUE, url |-> <<>>, userInfo |-> r.userInfo,
                             redirectURI |-> stateData[p].RedirectURI, err |-> r.err])
          IN IF req[p].provider = ProviderGoogle
             THEN \E userResp \in UserResponses(googleProfiles) :
                     Returned(handleGoogleCallback(req[p].code, tokenResp, userResp))
             ELSE IF req[p].provider = ProviderGitHub
             THEN \E userResp \in UserResponses(gitHubProfiles) :
                     \E emailResp \in IF exchangeError(tokenResp, userResp) = ""
                                         /\ userResp.profile.email = ""
                                      THEN emailResponses
                                      ELSE {[kind |-> "neterr", emails |-> <<>>]} :
                        Returned(handleGitHubCallback(req[p].code, tokenResp, userResp,
                                                      emailResp))
             ELSE Return(p, [NoRet EXCEPT !.op = "ValidateCallback", !.state = req[p].state,
                                          !.passed = TRUE,
                                          !.err = "unsupported provider"])
    /\ UNCHANGED <<now, store, config, nextState, issued, passCount>>
    /\ UNCHANGED <<jwtVars, kvVars, lockVars, authVars>>

----------------------------------------------------------------------------
(* The environment: the clock and the cleanup goroutine's ticker *)

Tick ==
    /\ now < MaxTime
    /\ now' = now + 1
    /\ UNCHANGED <<store, oauthVars, jwtVars, kvVars, lockVars, authVars>>

\* one iteration of the loop of cleanup, when it has something to evict
Sweep ==
    /\ store' = cleanup(store, now)
    /\ store' # store
    /\ UNCHANGED <<now, config, nextState, issued, pc, req, stateData, ret, passCount>>
    /\ UNCHANGED <<jwtVars, kvVars, lockVars, authVars>>

----------------------------------------------------------------------------
(* Spec: one store, the callers' calls one after the other.                  *)
(* SpecConc: the same calls, as concurrent as the code lets them be.         *)

\* Google is configured, GitHub is not; the state lifetime is one or two ticks
NoManagers == <<>>
NoToken == <<>>
NoOrigin == <<>>
NoJRes == <<>>
NoUsers == <<>>
Unlocked == [readers |-> {}, writer |-> ""]
NoMutation == [by |-> "", exclusive |-> TRUE, beside |-> {}, fatal |-> FALSE]
NoFrame == <<>>
NoARes == <<>>
NoHTTP == <<>>
NoSRes == [op |-> "", keys |-> {}, found |-> FALSE, dest |-> "", err |-> ""]

Configs == [GoogleClientID : {"gid"}, GitHubClientID : {""},
            OAuthStateExpiration : {1, 2}]

\* the state values a callback can carry: those issued so far, and one never issued
Presentable == (DOMAIN issued) \cup {0}

Init ==
    /\ now = 0
    /\ store = EmptyMap
    /\ config \in Configs
    /\ nextState = 1
    /\ issued = EmptyMap
    /\ pc = [p \in Callers |-> "idle"]
    /\ req = [p \in Callers |-> NoReq]
    /\ stateData = [p \in Callers |-> NoStateData]
    /\ ret = NoRet
    /\ passCount = [s \in 0..(MaxStates + 1) |-> 0]
    /\ mgr = NoManagers
    /\ tok = NoToken
    /\ origin = NoOrigin
    /\ jres = NoJRes
    /\ users = NoUsers
    /\ nextSession = 1
    /\ latest = EmptyMap
    /\ redis = EmptyMap
    /\ sres = NoSRes
    /\ mu = Unlocked
    /\ mlog = NoMutation
    /\ passwords = EmptyMap
    /\ nextUser = 1
    /\ frame = [p \in Callers |-> NoFrame]
    /\ ares = NoARes
    /\ signedUp = EmptyMap
    /\ http = NoHTTP

exchange(p) == exchangeOf(p, GoogleProfiles, GitHubProfiles, EmailResponses)

Step(p) ==
    \/ validateState_Get(p)
    \/ validateState_Delete(p)
    \/ validateState_Expiry(p)
    \/ exchange(p)

Next ==
    \/ \E provider \in Providers, redirectURI \in RedirectURIs :
          Idle /\ GetAuthURL(provider, redirectURI)
    \/ \E provider \in Providers, state \in Presentable, code \in Codes :
          Idle /\ ValidateCallback("c1", provider, state, code)
    \/ Step("c1")
    \/ Tick
    \/ Sweep

Spec == Init /\ [][Next]_vars

NextConc ==
    \/ \E provider \in Providers, redirectURI \in RedirectURIs :
          GetAuthURL(provider, redirectURI)
    \/ \E p \in Callers, provider \in Providers, state \in Presentable, code \in Codes :
          ValidateCallback(p, provider, state, code)
    \/ \E p \in Callers : Step(p)
    \/ Tick
    \/ Sweep

InitConc == Init /\ config.OAuthStateExpiration = 1

SpecConc == InitConc /\ [][NextConc]_vars

----------------------------------------------------------------------------
(* JWTManager.  A token string is modelled by what it decodes to: the header's   *)
(* alg, the claims, and the key its signature was made with.  An HMAC signature  *)
(* verifies under a key exactly when it was made with that key.  Claims of time  *)
(* are whole seconds (time.Time.Unix), the clock is in ticks.                    *)

Managers == {"A", "B"}
Secrets == {"secret1", "secret2"}
Issuer == "gotrust"
\* expiresIn, in ticks
Lifetimes == {1, 2, 3}

\* 30 * 24 * time.Hour, in seconds
RefreshLifetimeSeconds == 2592000

\* a string that is not valid UTF-8, and what encoding/json writes for it
BadUTF8 == "\\xff"
Replacement == "\\ufffd"
AbsentStr == "<absent>"
AbsentNum == -1

\* time.Time.Unix(): the whole seconds of an instant given in ticks
Unix(t) == t \div TicksPerSecond

\* the instant of a NumericDate
FromUnix(sec) == sec * TicksPerSecond

\* json.Marshal of a string and back: invalid UTF-8 comes back as U+FFFD
JSONString(str) == IF str = BadUTF8 THEN Replacement ELSE str

\* claims[name].(string): "" when the claim is absent
StringClaim(c) == IF c = AbsentStr THEN "" ELSE c

HMACAlgs == {"HS256", "HS384", "HS512"}

GenerateToken_longer(j, claims, t) ==
    [alg |-> "HS256", key |-> j.secret,
     user_id |-> JSONString(claims.UserID), email |-> JSONString(claims.Email),
     name |-> JSONString(claims.Name), provider |-> JSONString(claims.Provider),
     type |-> AbsentStr, iss |-> JSONString(j.issuer), sub |-> JSONString(claims.UserID),
     iat |-> Unix(t), exp |-> Unix(t + j.expiresIn) + 1, nbf |-> Unix(t)]

GenerateToken(j, claims, t) ==
    [alg |-> "HS256", key |-> j.secret,
     user_id |-> JSONString(claims.UserID), email |-> JSONString(claims.Email),
     name |-> JSONString(claims.Name), provider |-> JSONString(claims.Provider),
     type |-> AbsentStr, iss |-> JSONString(j.issuer), sub |-> JSONString(claims.UserID),
     iat |-> Unix(t), exp |-> Unix(t + j.expiresIn), nbf |-> Unix(t)]

\* a GenerateRefreshToken whose token lives 30 days longer than the access token
GenerateRefreshToken_afterAccess(j, userID, t) ==
    [alg |-> "HS256", key |-> j.secret,
     user_id |-> JSONString(userID), email |-> AbsentStr,
     name |-> AbsentStr, provider |-> AbsentStr,
     type |-> "refresh", iss |-> JSONString(j.issuer), sub |-> JSONString(userID),
     iat |-> Unix(t), exp |-> Unix(t + j.expiresIn) + RefreshLifetimeSeconds,
     nbf |-> AbsentNum]

GenerateRefreshToken(j, userID, t) ==
    [alg |-> "HS256", key |-> j.secret,
     user_id |-> JSONString(userID), email |-> AbsentStr,
     name |-> AbsentStr, provider |-> AbsentStr,
     type |-> "refresh", iss |-> JSONString(j.issuer), sub |-> JSONString(userID),
     iat |-> Unix(t), exp |-> Unix(t) + RefreshLifetimeSeconds, nbf |-> AbsentNum]

\* jwt.Parse with the managers' key function: the error, "" when the token is valid
Parse(j, token, t) ==
    IF token.alg \notin HMACAlgs THEN "unexpected signing method"
    ELSE IF token.key # j.secret THEN "signature is invalid"
    ELSE IF token.exp # AbsentNum /\ ~(t < FromUnix(token.exp)) THEN "token is expired"
    ELSE IF token.nbf # AbsentNum /\ t < FromUnix(token.nbf) THEN "token is not valid yet"
    ELSE ""

NoClaims == [UserID |-> "", Email |-> "", Name |-> "", Provider |-> ""]

ValidateToken_unsigned(j, token, t) ==
    IF Parse([j EXCEPT !.secret = token.key], token, t) # ""
    THEN [ok |-> FALSE, claims |-> NoClaims, err |-> "failed to parse token"]
    ELSE IF StringClaim(token.user_id) = ""
    THEN [ok |-> FALSE, claims |-> NoClaims, err |-> "user_id not found in token"]
    ELSE [ok |-> TRUE,
          claims |-> [UserID |-> StringClaim(token.user_id), Email |-> StringClaim(token.email),
                      Name |-> StringClaim(token.name),
                      Provider |-> StringClaim(token.provider)],
          err |-> ""]

\* a ValidateToken that does not copy the email claim
ValidateToken_dropsEmail(j, token, t) ==
    IF Parse(j, token, t) # ""
    THEN [ok |-> FALSE, claims |-> NoClaims, err |-> "failed to parse token"]
    ELSE IF StringClaim(token.user_id) = ""
    THEN [ok |-> FALSE, claims |-> NoClaims, err |-> "user_id not found in token"]
    ELSE [ok |-> TRUE,
          claims |-> [UserID |-> StringClaim(token.user_id), Email |-> "",
                      Name |-> StringClaim(token.name),
                      Provider |-> StringClaim(token.provider)],
          err |-> ""]

ValidateToken(j, token, t) ==
    IF Parse(j, token, t) # ""
    THEN [ok |-> FALSE, claims |-> NoClaims, err |-> "failed to parse token"]
    ELSE IF StringClaim(token.user_id) = ""
    THEN [ok |-> FALSE, claims |-> NoClaims, err |-> "user_id not found in token"]
    ELSE [ok |-> TRUE,
          claims |-> [UserID |-> StringClaim(token.user_id), Email |-> StringClaim(token.email),
                      Name |-> StringClaim(token.name),
                      Provider |-> StringClaim(token.provider)],
          err |-> ""]

ValidateRefreshToken_untyped(j, token, t) ==
    IF Parse(j, token, t) # ""
    THEN [ok |-> FALSE, userID |-> "", err |-> "failed to parse refresh token"]
    ELSE IF StringClaim(token.user_id) = ""
    THEN [ok |-> FALSE, userID |-> "", err |-> "user_id not found in refresh token"]
    ELSE [ok |-> TRUE, userID |-> StringClaim(token.user_id), err |-> ""]

\* a ValidateRefreshToken that wants a session of the token's user in the store
ValidateRefreshToken_sessionBound(j, token, t) ==
    IF Parse(j, token, t) # ""
    THEN [ok |-> FALSE, userID |-> "", err |-> "failed to parse refresh token"]
    ELSE IF StringClaim(token.type) # "refresh"
    THEN [ok |-> FALSE, userID |-> "", err |-> "not a refresh token"]
    ELSE IF StringClaim(token.user_id) = ""
    THEN [ok |-> FALSE, userID |-> "", err |-> "user_id not found in refresh token"]
    ELSE IF \A key \in DOMAIN store :
               Unmarshal(store[key].value).UserID # StringClaim(token.user_id)
    THEN [ok |-> FALSE, userID |-> "", err |-> "no session"]
    ELSE [ok |-> TRUE, userID |-> StringClaim(token.user_id), err |-> ""]

ValidateRefreshToken(j, token, t) ==
    IF Parse(j, token, t) # ""
    THEN [ok |-> FALSE, userID |-> "", err |-> "failed to parse refresh token"]
    ELSE IF StringClaim(token.type) # "refresh"
    THEN [ok |-> FALSE, userID |-> "", err |-> "not a refresh token"]
    ELSE IF StringClaim(token.user_id) = ""
    THEN [ok |-> FALSE, userID |-> "", err |-> "user_id not found in refresh token"]
    ELSE [ok |-> TRUE, userID |-> StringClaim(token.user_id), err |-> ""]

----------------------------------------------------------------------------
(* The UserStore, as InMemoryUserStore implements it: users and password   *)
(* hashes by email.  The maps hold pointers, so a *User that a lookup      *)
(* returned is the stored record itself.                                   *)

\* UserExists
UserExists(us, email) == email \in DOMAIN us

\* CreateUser as it would be if it did not look for the e-mail first
CreateUser_overwrites(us, pws, user, hashedPassword) ==
    [err |-> "", users |-> Put(us, user.Email, user),
     passwords |-> IF hashedPassword # "" THEN Put(pws, user.Email, hashedPassword)
                   ELSE pws]

\* CreateUser: the error, and the maps after it
CreateUser(us, pws, user, hashedPassword) ==
    IF user.Email \in DOMAIN us
    THEN [err |-> "user with email " \o user.Email \o " already exists",
          users |-> us, passwords |-> pws]
    ELSE [err |-> "", users |-> Put(us, user.Email, user),
          passwords |-> IF hashedPassword # "" THEN Put(pws, user.Email, hashedPassword)
                        ELSE pws]

\* GetUserByEmail: s.passwords[email] is "" for a user stored without a hash
GetUserByEmail(us, pws, email) ==
    IF email \notin DOMAIN us
    THEN [err |-> "user not found", email |-> "", hashedPassword |-> ""]
    ELSE [err |-> "", email |-> email,
          hashedPassword |-> IF email \in DOMAIN pws THEN pws[email] ELSE ""]

\* GetUserByID ranges over the map and returns the first user with the id:
\* the users it can return
GetUserByID(us, userID) == {us[e] : e \in {x \in DOMAIN us : us[x].ID = userID}}

\* UpdateUser: the error, and the map after it
UpdateUser(us, user) ==
    IF user.Email \notin DOMAIN us
    THEN [err |-> "user not found", users |-> us]
    ELSE [err |-> "", users |-> Put(us, user.Email, user)]

----------------------------------------------------------------------------
(* SessionManager and the part of AuthService that RefreshToken runs through *)

sessionPrefix == "session"

\* fmt.Sprintf("%s:%s", s.prefix, sessionID)
SessionKey(sessionID) == <<sessionPrefix, sessionID>>

\* the SessionData that CreateSession builds when time.Now() is t
NewSessionData(userID, email, duration, t) ==
    [UserID |-> userID, Email |-> email, CreatedAt |-> t, ExpiresAt |-> t + duration]

\* CreateSession when the session data is built at t and the store's Set reads
\* the clock at setAt >= t: the store after it (the in-process Set cannot fail)
CreateSessionAt(st, sessionID, userID, email, duration, t, setAt) ==
    MemorySessionStore_Set(st, SessionKey(sessionID),
                           NewSessionData(userID, email, duration, t), duration, setAt)

\* a CreateSession that stores the record for twice the duration
CreateSession_twiceAsLong(st, sessionID, userID, email, duration, t) ==
    CreateSessionAt(st, sessionID, userID, email, 2 * duration, t, t)

\* CreateSession within one reading of the clock
CreateSession(st, sessionID, userID, email, duration, t) ==
    CreateSessionAt(st, sessionID, userID, email, duration, t, t)

NoSession == [UserID |-> "", Email |-> "", CreatedAt |-> 0, ExpiresAt |-> 0]

\* a GetSession that leaves an expired record where it is
GetSession_keepsExpired(st, sessionID, t) ==
    LET key == SessionKey(sessionID)
        got == MemorySessionStore_Get(st, key, t)
    IN IF ~got.found
       THEN [ok |-> FALSE, data |-> NoSession, err |-> "session not found: " \o got.err,
             store |-> got.store]
       ELSE IF After(t, got.dest.ExpiresAt)
       THEN [ok |-> FALSE, data |-> NoSession, err |-> "session expired", store |-> got.store]
       ELSE [ok |-> TRUE, data |-> got.dest, err |-> "", store |-> got.store]

\* GetSession: (sessionData, err) and the store after it
GetSession(st, sessionID, t) ==
    LET key == SessionKey(sessionID)
        got == MemorySessionStore_Get(st, key, t)
    IN IF ~got.found
       THEN [ok |-> FALSE, data |-> NoSession, err |-> "session not found: " \o got.err,
             store |-> got.store]
       ELSE IF After(t, got.dest.ExpiresAt)
       THEN [ok |-> FALSE, data |-> NoSession, err |-> "session expired",
             store |-> MemorySessionStore_Delete(got.store, {key})]
       ELSE [ok |-> TRUE, data |-> got.dest, err |-> "", store |-> got.store]

\* InvalidateSession: the store after it
InvalidateSession(st, sessionID) == MemorySessionStore_Delete(st, {SessionKey(sessionID)})

\* generateAuthResponse of a service whose manager is j and whose
\* config.JWTExpiration is j.expiresIn, as NewAuthService sets them up
generateAuthResponse(j, user, t) ==
    [User |-> user,
     AccessToken |-> GenerateToken(j, [UserID |-> user.ID, Email |-> user.Email,
                                       Name |-> user.Name, Provider |-> user.Provider], t),
     RefreshToken |-> GenerateRefreshToken(j, user.ID, t),
     ExpiresIn |-> j.expiresIn \div TicksPerSecond]

NoResponse == <<>>

\* a RefreshToken that takes any token of the manager for a refresh token
RefreshToken_user_anyToken(j, us, refreshToken, t) ==
    LET v == ValidateRefreshToken_untyped(j, refreshToken, t)
    IN IF ~v.ok THEN [ok |-> FALSE, userID |-> "", err |-> "invalid refresh token"]
       ELSE IF GetUserByID(us, v.userID) = {}
       THEN [ok |-> FALSE, userID |-> "", err |-> "user not found"]
       ELSE [ok |-> TRUE, userID |-> v.userID, err |-> ""]

\* AuthService.RefreshToken up to generateAuthResponse: whom it answers for
RefreshToken_user(j, us, refreshToken, t) ==
    LET v == ValidateRefreshToken(j, refreshToken, t)
    IN IF ~v.ok THEN [ok |-> FALSE, userID |-> "", err |-> "invalid refresh token"]
       ELSE IF GetUserByID(us, v.userID) = {}
       THEN [ok |-> FALSE, userID |-> "", err |-> "user not found"]
       ELSE [ok |-> TRUE, userID |-> v.userID, err |-> ""]

----------------------------------------------------------------------------
(* SpecJWT: two managers, the clock, and the life of one token: it is issued *)
(* by a manager at some time, or made elsewhere, and then presented.        *)

TokenClaimsSet == [UserID : {"", "u1"}, Email : {"a@x"}, Name : {"Ann", BadUTF8},
                   Provider : {ProviderLocal}]
UserIDs == {"", "u1"}

\* token strings made elsewhere: any header and claims, signed with any key
ForgedTokens ==
    [alg : {"HS256", "HS512", "none"}, key : Secrets,
     user_id : {AbsentStr, "u1"}, email : {AbsentStr}, name : {AbsentStr},
     provider : {AbsentStr}, type : {AbsentStr, "refresh", "access"},
     iss : {Issuer}, sub : {"u1"}, iat : {0},
     exp : {AbsentNum, 1}, nbf : {AbsentNum, 1}]

MaxSessions == 2

KnownUsers == [email \in {"a@x"} |->
                  [ID |-> "u1", Email |-> email, Name |-> "Ann", AvatarURL |-> "",
                   Provider |-> ProviderLocal, CreatedAt |-> 0, UpdatedAt |-> 0]]

InitJWT ==
    /\ now = 0
    /\ store = EmptyMap
    /\ config = [GoogleClientID |-> "", GitHubClientID |-> "", OAuthStateExpiration |-> 0]
    /\ nextState = 1
    /\ issued = EmptyMap
    /\ pc = [p \in Callers |-> "idle"]
    /\ req = [p \in Callers |-> NoReq]
    /\ stateData = [p \in Callers |-> NoStateData]
    /\ ret = NoRet
    /\ passCount = [s \in 0..(MaxStates + 1) |-> 0]
    /\ \E l \in Lifetimes, sec \in Secrets :
          mgr = [m \in Managers |->
                    [secret |-> IF m = "A" THEN "secret1" ELSE sec,
                     issuer |-> Issuer, expiresIn |-> l]]
    /\ tok = NoToken
    /\ origin = NoOrigin
    /\ jres = NoJRes
    /\ users = KnownUsers
    /\ nextSession = 1
    /\ latest = EmptyMap
    /\ redis = EmptyMap
    /\ sres = NoSRes
    /\ mu = Unlocked
    /\ mlog = NoMutation
    /\ passwords = EmptyMap
    /\ nextUser = 1
    /\ frame = [p \in Callers |-> NoFrame]
    /\ ares = NoARes
    /\ signedUp = EmptyMap
    /\ http = NoHTTP

Call_GenerateToken(m, claims) ==
    /\ tok = NoToken
    /\ tok' = GenerateToken(mgr[m], claims, now)
    /\ origin' = [kind |-> "access", by |-> m, at |-> now, claims |-> claims]
    /\ jres' = NoJRes
    /\ UNCHANGED <<now, store, oauthVars, kvVars, lockVars, authVars, mgr, users, nextSession>>

Call_GenerateRefreshToken(m, userID) ==
    /\ tok = NoToken
    /\ tok' = GenerateRefreshToken(mgr[m], userID, now)
    /\ origin' = [kind |-> "refresh", by |-> m, at |-> now,
                  claims |-> [NoClaims EXCEPT !.UserID = userID]]
    /\ jres' = NoJRes
    /\ UNCHANGED <<now, store, oauthVars, kvVars, lockVars, authVars, mgr, users, nextSession>>

Forge(token) ==
    /\ tok = NoToken
    /\ now = 0
    /\ tok' = token
    /\ origin' = [kind |-> "forged", by |-> "", at |-> now, claims |-> NoClaims]
    /\ jres' = NoJRes
    /\ UNCHANGED <<now, store, oauthVars, kvVars, lockVars, authVars, mgr, users, nextSession>>

Call_ValidateToken(m) ==
    /\ tok # NoToken
    /\ LET r == ValidateToken(mgr[m], tok, now)
       IN jres' = [op |-> "ValidateToken", by |-> m, at |-> now, ok |-> r.ok,
                   claims |-> r.claims, err |-> r.err]
    /\ UNCHANGED <<now, store, oauthVars, kvVars, lockVars, authVars, mgr, tok, origin, users, nextSession>>

Call_ValidateRefreshToken(m) ==
    /\ tok # NoToken
    /\ LET r == ValidateRefreshToken(mgr[m], tok, now)
       IN jres' = [op |-> "ValidateRefreshToken", by |-> m, at |-> now, ok |-> r.ok,
                   claims |-> [NoClaims EXCEPT !.UserID = r.userID], err |-> r.err]
    /\ UNCHANGED <<now, store, oauthVars, kvVars, lockVars, authVars, mgr, tok, origin, users, nextSession>>

\* AuthService.RefreshToken(ctx, tok) of the service that owns manager m
Call_RefreshToken(m) ==
    /\ tok # NoToken
    /\ nextSession <= MaxSessions
    /\ LET r == RefreshToken_user(mgr[m], users, tok, now)
       IN IF ~r.ok
          THEN /\ jres' = [op |-> "RefreshToken", by |-> m, at |-> now, ok |-> FALSE,
                           claims |-> NoClaims, err |-> r.err, resp |-> NoResponse]
               /\ UNCHANGED <<store, nextSession>>
          ELSE \E user \in GetUserByID(users, r.userID) :
               /\ jres' = [op |-> "RefreshToken", by |-> m, at |-> now, ok |-> TRUE,
                           claims |-> NoClaims, err |-> "",
                           resp |-> generateAuthResponse(mgr[m], user, now)]
               /\ store' = CreateSession(store, nextSession, user.ID, user.Email,
                                         mgr[m].expiresIn, now)
               /\ nextSession' = nextSession + 1
    /\ UNCHANGED <<now, oauthVars, kvVars, lockVars, authVars, mgr, tok, origin, users>>

NextJWT ==
    \/ \E m \in Managers : Call_RefreshToken(m)
    \/ \E m \in Managers, claims \in TokenClaimsSet : Call_GenerateToken(m, claims)
    \/ \E m \in Managers, userID \in UserIDs : Call_GenerateRefreshToken(m, userID)
    \/ \E token \in ForgedTokens : Forge(token)
    \/ \E m \in Managers : Call_ValidateToken(m)
    \/ \E m \in Managers : Call_ValidateRefreshToken(m)
    \/ Tick

SpecJWT == InitJWT /\ [][NextJWT]_vars

----------------------------------------------------------------------------
(* SpecStore: one MemorySessionStore, called directly, with its clock and  *)
(* its cleanup goroutine.                                                  *)

Keys == {"k1", "k2"}
Values == {"v1", "v2"}
TTLs == {0, 1, 2}

InitStore ==
    /\ now = 0
    /\ store = EmptyMap
    /\ config = [GoogleClientID |-> "", GitHubClientID |-> "", OAuthStateExpiration |-> 0]
    /\ nextState = 1
    /\ issued = EmptyMap
    /\ pc = [p \in Callers |-> "idle"]
    /\ req = [p \in Callers |-> NoReq]
    /\ stateData = [p \in Callers |-> NoStateData]
    /\ ret = NoRet
    /\ passCount = [s \in 0..(MaxStates + 1) |-> 0]
    /\ mgr = NoManagers
    /\ tok = NoToken
    /\ origin = NoOrigin
    /\ jres = NoJRes
    /\ users = NoUsers
    /\ nextSession = 1
    /\ latest = EmptyMap
    /\ redis = EmptyMap
    /\ sres = NoSRes
    /\ mu = Unlocked
    /\ mlog = NoMutation
    /\ passwords = EmptyMap
    /\ nextUser = 1
    /\ frame = [p \in Callers |-> NoFrame]
    /\ ares = NoARes
    /\ signedUp = EmptyMap
    /\ http = NoHTTP

\* store.Set(ctx, key, value, expiration)
Call_Set(key, value, expiration) ==
    /\ store' = MemorySessionStore_Set(store, key, value, expiration, now)
    /\ latest' = Put(latest, key, [value |-> value, at |-> now, ttl |-> expiration,
                                   deleted |-> FALSE])
    /\ sres' = [NoSRes EXCEPT !.op = "Set", !.keys = {key}]
    /\ UNCHANGED <<now, oauthVars, jwtVars, lockVars, authVars, redis>>

\* var dest string; store.Get(ctx, key, &dest): dest stays "" on an error
Call_Get(key) ==
    /\ LET r == MemorySessionStore_Get(store, key, now)
       IN /\ store' = r.store
          /\ sres' = [op |-> "Get", keys |-> {key}, found |-> r.found,
                      dest |-> IF r.found THEN r.dest ELSE "", err |-> r.err]
    /\ UNCHANGED <<now, oauthVars, jwtVars, lockVars, authVars, latest, redis>>

\* store.Delete(ctx, keys...)
Call_Delete(keys) ==
    /\ store' = MemorySessionStore_Delete(store, keys)
    /\ latest' = [k \in DOMAIN latest |->
                    IF k \in keys THEN [latest[k] EXCEPT !.deleted = TRUE] ELSE latest[k]]
    /\ sres' = [NoSRes EXCEPT !.op = "Delete", !.keys = keys]
    /\ UNCHANGED <<now, oauthVars, jwtVars, lockVars, authVars, redis>>

\* store.Exists(ctx, keys...)
Call_Exists(keys) ==
    /\ sres' = [NoSRes EXCEPT !.op = "Exists", !.keys = keys,
                              !.found = MemorySessionStore_Exists(store, keys, now)]
    /\ UNCHANGED <<now, store, oauthVars, jwtVars, lockVars, authVars, latest, redis>>

NextStore ==
    \/ \E key \in Keys, value \in Values, expiration \in TTLs : Call_Set(key, value, expiration)
    \/ \E key \in Keys : Call_Get(key)
    \/ \E keys \in SUBSET Keys : Call_Delete(keys)
    \/ \E keys \in SUBSET Keys : Call_Exists(keys)
    \/ Sweep
    \/ Tick

SpecStore == InitStore /\ [][NextStore]_vars

----------------------------------------------------------------------------
(* SpecLock: one MemorySessionStore called from concurrent goroutines, at  *)
(* the grain of its RWMutex: a call takes the lock, touches the map, and   *)
(* releases the lock when it returns (defer).  The cleanup goroutine is    *)
(* one more taker of the lock.                                             *)

Cleaner == "cleanup"
LockValues == {"v1"}
LockTTLs == {0, 1}

\* the Go runtime has not stopped the process (fatal error: concurrent map ...)
Running == ~mlog.fatal

\* m.mu.Lock() can return: nobody holds the lock
CanLock == mu.readers = {} /\ mu.writer = ""

\* m.mu.RLock() can return: no writer holds the lock
CanRLock == mu.writer = ""

RLock(p) == [mu EXCEPT !.readers = @ \cup {p}]
RUnlock(p) == [mu EXCEPT !.readers = @ \ {p}]
Lock(p) == [mu EXCEPT !.writer = p]
Unlock(p) == [mu EXCEPT !.writer = ""]

\* a mutation of the map by p: under which lock, and beside which readers.
\* A write that overlaps another goroutine's access is a data race: the
\* runtime may stop the process with a fatal error, or may not notice.
Mutation(p, fatal) ==
    [by |-> p, exclusive |-> mu.writer = p, beside |-> mu.readers \ {p}, fatal |-> fatal]

RaceOutcomes(p) == IF mu.writer # p /\ mu.readers \ {p} # {} THEN BOOLEAN ELSE {FALSE}

\* the caller's return: pc back to idle, the result in sres
StoreReturn(p, r) ==
    /\ sres' = r
    /\ pc' = [pc EXCEPT ![p] = "idle"]
    /\ req' = [req EXCEPT ![p] = NoReq]

\* what no call of the store touches
LockOthers ==
    /\ UNCHANGED <<config, nextState, issued, stateData, ret, passCount>>
    /\ UNCHANGED <<jwtVars, latest, redis, authVars>>

\* Set: json.Marshal, m.mu.Lock()
Set_Lock(p, key, value, expiration) ==
    /\ Running /\ pc[p] = "idle" /\ CanLock
    /\ LockOthers
    /\ mu' = Lock(p)
    /\ pc' = [pc EXCEPT ![p] = "Set_write"]
    /\ req' = [req EXCEPT ![p] = [op |-> "Set", keys |-> {key}, value |-> value,
                                  expiration |-> expiration]]
    /\ UNCHANGED <<now, store, mlog, sres>>

\* Set: m.store[key] = memoryItem{...}; return nil (Unlock)
Set_write(p) ==
    /\ Running /\ pc[p] = "Set_write"
    /\ LockOthers
    /\ \E key \in req[p].keys :
          store' = MemorySessionStore_Set(store, key, req[p].value, req[p].expiration, now)
    /\ mlog' = Mutation(p, FALSE)
    /\ mu' = Unlock(p)
    /\ StoreReturn(p, [NoSRes EXCEPT !.op = "Set", !.keys = req[p].keys])
    /\ UNCHANGED now

\* Get: m.mu.RLock()
Get_RLock(p, key) ==
    /\ Running /\ pc[p] = "idle" /\ CanRLock
    /\ LockOthers
    /\ mu' = RLock(p)
    /\ pc' = [pc EXCEPT ![p] = "Get_read"]
    /\ req' = [req EXCEPT ![p] = [op |-> "Get", keys |-> {key}, value |-> "",
                                  expiration |-> 0]]
    /\ UNCHANGED <<now, store, mlog, sres>>

\* Get: item, exists := m.store[key]; the expiry test; the returns that leave
\* the map alone (RUnlock)
Get_read(p) ==
    /\ Running /\ pc[p] = "Get_read"
    /\ LockOthers
    /\ \E key \in req[p].keys :
          IF key \notin DOMAIN store
          THEN /\ mu' = RUnlock(p)
               /\ StoreReturn(p, [NoSRes EXCEPT !.op = "Get", !.keys = {key},
                                                !.err = "key not found"])
          ELSE IF After(now, store[key].expiresAt)
          THEN /\ pc' = [pc EXCEPT ![p] = "Get_delete"]
               /\ UNCHANGED <<mu, req, sres>>
          ELSE /\ mu' = RUnlock(p)
               /\ StoreReturn(p, [op |-> "Get", keys |-> {key}, found |-> TRUE,
                                  dest |-> Unmarshal(store[key].value), err |-> ""])
    /\ UNCHANGED <<now, store, mlog>>

\* Get: delete(m.store, key); return "key expired" (RUnlock)
Get_delete(p) ==
    /\ Running /\ pc[p] = "Get_delete"
    /\ LockOthers
    /\ store' = Remove(store, req[p].keys)
    /\ \E fatal \in RaceOutcomes(p) : mlog' = Mutation(p, fatal)
    /\ mu' = RUnlock(p)
    /\ StoreReturn(p, [NoSRes EXCEPT !.op = "Get", !.keys = req[p].keys,
                                     !.err = "key expired"])
    /\ UNCHANGED now

\* Delete: m.mu.Lock()
Delete_Lock(p, keys) ==
    /\ Running /\ pc[p] = "idle" /\ CanLock
    /\ LockOthers
    /\ mu' = Lock(p)
    /\ pc' = [pc EXCEPT ![p] = "Delete_write"]
    /\ req' = [req EXCEPT ![p] = [op |-> "Delete", keys |-> keys, value |-> "",
                                  expiration |-> 0]]
    /\ UNCHANGED <<now, store, mlog, sres>>

\* Delete: for each key delete(m.store, key); return nil (Unlock)
Delete_write(p) ==
    /\ Running /\ pc[p] = "Delete_write"
    /\ LockOthers
    /\ store' = MemorySessionStore_Delete(store, req[p].keys)
    /\ mlog' = Mutation(p, FALSE)
    /\ mu' = Unlock(p)
    /\ StoreReturn(p, [NoSRes EXCEPT !.op = "Delete", !.keys = req[p].keys])
    /\ UNCHANGED now

\* Exists: m.mu.RLock()
Exists_RLock(p, keys) ==
    /\ Running /\ pc[p] = "idle" /\ CanRLock
    /\ LockOthers
    /\ mu' = RLock(p)
    /\ pc' = [pc EXCEPT ![p] = "Exists_read"]
    /\ req' = [req EXCEPT ![p] = [op |-> "Exists", keys |-> keys, value |-> "",
                                  expiration |-> 0]]
    /\ UNCHANGED <<now, store, mlog, sres>>

\* Exists: the loop over keys; return (RUnlock)
Exists_read(p) ==
    /\ Running /\ pc[p] = "Exists_read"
    /\ LockOthers
    /\ mu' = RUnlock(p)
    /\ StoreReturn(p, [NoSRes EXCEPT !.op = "Exists", !.keys = req[p].keys,
                          !.found = MemorySessionStore_Exists(store, req[p].keys, now)])
    /\ UNCHANGED <<now, store, mlog>>

\* cleanup: a tick of the ticker; m.mu.Lock()
cleanup_Lock ==
    /\ Running /\ CanLock
    /\ LockOthers
    /\ mu' = Lock(Cleaner)
    /\ UNCHANGED <<now, store, mlog, sres, pc, req>>

\* cleanup: the loop that deletes the expired items; m.mu.Unlock()
cleanup_evict ==
    /\ Running /\ mu.writer = Cleaner
    /\ LockOthers
    /\ store' = cleanup(store, now)
    /\ mlog' = IF store' # store THEN Mutation(Cleaner, FALSE) ELSE mlog
    /\ mu' = Unlock(Cleaner)
    /\ UNCHANGED <<now, sres, pc, req>>

NextLock ==
    \/ \E p \in Callers, key \in Keys, value \in LockValues, expiration \in LockTTLs :
          Set_Lock(p, key, value, expiration)
    \/ \E p \in Callers : Set_write(p)
    \/ \E p \in Callers, key \in Keys : Get_RLock(p, key)
    \/ \E p \in Callers : Get_read(p)
    \/ \E p \in Callers : Get_delete(p)
    \/ \E p \in Callers, keys \in SUBSET Keys : Delete_Lock(p, keys)
    \/ \E p \in Callers : Delete_write(p)
    \/ \E p \in Callers, keys \in SUBSET Keys : Exists_RLock(p, keys)
    \/ \E p \in Callers : Exists_read(p)
    \/ cleanup_Lock
    \/ cleanup_evict
    \/ Running /\ Tick

SpecLock == InitStore /\ [][NextLock]_vars

----------------------------------------------------------------------------
(* SpecSession: one SessionManager over a MemorySessionStore, its calls made *)
(* one after the other, the clock and the cleanup goroutine.                 *)

SessionDurations == {1, 2}

\* how far the clock can move between CreateSession's time.Now() and Set's
ClockSkews == {0, 1}

\* the session ids a caller can present: those drawn so far, and one never drawn
SessionIDs == 0..(nextSession - 1)

SessionOthers ==
    /\ UNCHANGED <<oauthVars, lockVars, sres, redis>>
    /\ UNCHANGED <<mgr, tok, origin, jres, users, passwords, nextUser, frame, signedUp, http>>

\* s.CreateSession(ctx, userID, email, duration)
Call_CreateSession(userID, email, duration) ==
    /\ nextSession <= MaxSessions
    /\ \E skew \in ClockSkews :
          /\ now + skew <= MaxTime
          /\ now' = now + skew
          /\ store' = CreateSessionAt(store, nextSession, userID, email, duration, now, now')
          /\ latest' = Put(latest, SessionKey(nextSession),
                           [value |-> NewSessionData(userID, email, duration, now),
                            at |-> now', ttl |-> duration, deleted |-> FALSE])
    /\ nextSession' = nextSession + 1
    /\ ares' = [op |-> "CreateSession", sessionID |-> nextSession, at |-> now', ok |-> TRUE,
                data |-> NoSession, err |-> ""]
    /\ SessionOthers

\* s.GetSession(ctx, sessionID)
Call_GetSession(sessionID) ==
    /\ LET r == GetSession(store, sessionID, now)
       IN /\ store' = r.store
          /\ ares' = [op |-> "GetSession", sessionID |-> sessionID, at |-> now, ok |-> r.ok,
                      data |-> r.data, err |-> r.err]
    /\ UNCHANGED <<now, nextSession, latest>>
    /\ SessionOthers

\* s.InvalidateSession(ctx, sessionID)
Call_InvalidateSession(sessionID) ==
    /\ store' = InvalidateSession(store, sessionID)
    /\ latest' = [k \in DOMAIN latest |->
                    IF k = SessionKey(sessionID) THEN [latest[k] EXCEPT !.deleted = TRUE]
                    ELSE latest[k]]
    /\ ares' = [op |-> "InvalidateSession", sessionID |-> sessionID, at |-> now, ok |-> TRUE,
                data |-> NoSession, err |-> ""]
    /\ UNCHANGED <<now, nextSession>>
    /\ SessionOthers

NextSession ==
    \/ \E duration \in SessionDurations : Call_CreateSession("u1", "a@x", duration)
    \/ \E sessionID \in SessionIDs : Call_GetSession(sessionID)
    \/ \E sessionID \in SessionIDs : Call_InvalidateSession(sessionID)
    \/ Sweep
    \/ Tick

SpecSession == InitStore /\ [][NextSession]_vars

----------------------------------------------------------------------------
(* AuthService, one caller's call step by step: each step is one access to *)
(* the user store or the session store, so that other callers and the      *)
(* clock may come between the steps.                                       *)

\* bcrypt, idealised: a hash matches exactly the password it was made from;
\* GenerateFromPassword refuses a cost above bcrypt.MaxCost
Hash(password) == "bcrypt:" \o password

GenerateFromPassword(password, cost) ==
    IF cost > 31 THEN [err |-> "bcrypt: invalid cost", hash |-> ""]
    ELSE [err |-> "", hash |-> Hash(password)]

\* a comparison by equality of what is stored, where no hash and no password match
CompareHashAndPassword_emptyMatches(hashedPassword, password) ==
    hashedPassword = Hash(password) \/ (hashedPassword = "" /\ password = "")

\* a comparison that lets every password pass for a hash that is there
CompareHashAndPassword_anyPassword(hashedPassword, password) == hashedPassword # ""

\* CompareHashAndPassword returns nil
CompareHashAndPassword(hashedPassword, password) == hashedPassword = Hash(password)

NoUserRecord == [ID |-> "", Email |-> "", Name |-> "", AvatarURL |-> "", Provider |-> "",
                 CreatedAt |-> 0, UpdatedAt |-> 0]

\* the service's own JWT manager
Service == "A"

MaxUsers == 2

\* whether a best-effort step of the stores fails when it is made
FaultChoices == BOOLEAN

\* no AuthService call of p is in flight
AuthIdle(p) == pc[p] = "idle" /\ frame[p] = NoFrame

\* a call may begin
MayBegin(p) == AuthIdle(p)

\* ctx is the call's context.Context: "live", or "done" once the caller has
\* cancelled it or its deadline has passed
NewFrame(op, email) == [op |-> op, email |-> email, password |-> "", name |-> "",
                        provider |-> "", user |-> NoUserRecord, faults |-> {},
                        ctx |-> "live"]

\* return nil, err
AuthFail(p, op, err) ==
    /\ ares' = [op |-> op, ok |-> FALSE, err |-> err, resp |-> NoResponse,
                faults |-> IF frame[p] = NoFrame THEN {} ELSE frame[p].faults, by |-> p]
    /\ pc' = [pc EXCEPT ![p] = "idle"]
    /\ frame' = [frame EXCEPT ![p] = NoFrame]

\* what the OAuth steps and the session-less steps leave alone
AuthOthers ==
    /\ UNCHANGED <<config, nextState, issued, stateData, passCount>>
    /\ UNCHANGED <<mgr, origin, jres, kvVars, lockVars, signedUp, http>>

\* SignUp: the AllowSignup check
SignUp(p, email, password, name) ==
    /\ MayBegin(p) /\ nextUser <= MaxUsers
    /\ IF ~config.AllowSignup
       THEN AuthFail(p, "SignUp", "signup is disabled")
       ELSE /\ pc' = [pc EXCEPT ![p] = "SignUp_UserExists"]
            /\ frame' = [frame EXCEPT ![p] = [NewFrame("SignUp", email) EXCEPT
                                                 !.password = password, !.name = name]]
            /\ ares' = NoARes
    /\ UNCHANGED <<now, store, users, passwords, nextUser, nextSession, tok, req, ret>>
    /\ AuthOthers

\* SignUp as it would be if it left the question of existence to CreateUser
SignUp_UserExists_skipped(p) ==
    /\ pc[p] = "SignUp_UserExists"
    /\ pc' = [pc EXCEPT ![p] = "SignUp_CreateUser"]
    /\ UNCHANGED <<frame, ares>>
    /\ UNCHANGED <<now, store, users, passwords, nextUser, nextSession, tok, req, ret>>
    /\ AuthOthers

\* SignUp: a.userStore.UserExists
SignUp_UserExists(p) ==
    /\ pc[p] = "SignUp_UserExists"
    /\ IF UserExists(users, frame[p].email)
       THEN AuthFail(p, "SignUp", "user already exists")
       ELSE /\ pc' = [pc EXCEPT ![p] = "SignUp_CreateUser"]
            /\ UNCHANGED <<frame, ares>>
    /\ UNCHANGED <<now, store, users, passwords, nextUser, nextSession, tok, req, ret>>
    /\ AuthOthers

\* SignUp: the hash, the new User, a.userStore.CreateUser
SignUp_CreateUser(p) ==
    /\ pc[p] = "SignUp_CreateUser"
    /\ LET hashed == GenerateFromPassword(frame[p].password, config.BCryptCost)
           user == [ID |-> "u" \o Itoa(nextUser), Email |-> frame[p].email,
                    Name |-> frame[p].name, AvatarURL |-> "", Provider |-> ProviderLocal,
                    CreatedAt |-> now, UpdatedAt |-> now]
           created == CreateUser(users, passwords, user, hashed.hash)
       IN IF hashed.err # ""
          THEN /\ AuthFail(p, "SignUp", "failed to hash password: " \o hashed.err)
               /\ UNCHANGED <<users, passwords, nextUser>>
          ELSE /\ nextUser' = nextUser + 1
               /\ users' = created.users
               /\ passwords' = created.passwords
               /\ IF created.err # ""
                  THEN AuthFail(p, "SignUp", "failed to create user: " \o created.err)
                  ELSE /\ pc' = [pc EXCEPT ![p] = "generateAuthResponse"]
                       /\ frame' = [frame EXCEPT ![p].user = user]
                       /\ UNCHANGED ares
    /\ UNCHANGED <<now, store, nextSession, tok, req, ret>>
    /\ AuthOthers

\* SignIn as it would be if a missing user were reported as such
SignIn_namesMissingUser(p, email, password) ==
    /\ MayBegin(p)
    /\ LET got == GetUserByEmail(users, passwords, email)
       IN IF got.err # ""
          THEN AuthFail(p, "SignIn", got.err)
          ELSE IF ~CompareHashAndPassword(got.hashedPassword, password)
          THEN AuthFail(p, "SignIn", "invalid credentials")
          ELSE /\ pc' = [pc EXCEPT ![p] = "generateAuthResponse"]
               /\ frame' = [frame EXCEPT ![p] = [NewFrame("SignIn", email) EXCEPT
                                                    !.password = password,
                                                    !.user = users[email]]]
               /\ ares' = NoARes
    /\ UNCHANGED <<now, store, users, passwords, nextUser, nextSession, tok, req, ret>>
    /\ AuthOthers

\* SignIn: a.userStore.GetUserByEmail and the comparison of the hash
SignIn(p, email, password) ==
    /\ MayBegin(p)
    /\ LET got == GetUserByEmail(users, passwords, email)
       IN IF got.err # ""
          THEN AuthFail(p, "SignIn", "invalid credentials")
          ELSE IF ~CompareHashAndPassword(got.hashedPassword, password)
          THEN AuthFail(p, "SignIn", "invalid credentials")
          ELSE /\ pc' = [pc EXCEPT ![p] = "generateAuthResponse"]
               /\ frame' = [frame EXCEPT ![p] = [NewFrame("SignIn", email) EXCEPT
                                                    !.password = password,
                                                    !.user = users[email]]]
               /\ ares' = NoARes
    /\ UNCHANGED <<now, store, users, passwords, nextUser, nextSession, tok, req, ret>>
    /\ AuthOthers

\* RefreshToken: ValidateRefreshToken and a.userStore.GetUserByID
RefreshToken(p, refreshToken) ==
    /\ MayBegin(p)
    /\ LET r == RefreshToken_user(mgr[Service], users, refreshToken, now)
       IN IF ~r.ok
          THEN AuthFail(p, "RefreshToken", r.err)
          ELSE \E user \in GetUserByID(users, r.userID) :
                  /\ pc' = [pc EXCEPT ![p] = "generateAuthResponse"]
                  /\ frame' = [frame EXCEPT ![p] = [NewFrame("RefreshToken", user.Email)
                                                       EXCEPT !.user = user]]
                  /\ ares' = NoARes
    /\ UNCHANGED <<now, store, users, passwords, nextUser, nextSession, tok, req, ret>>
    /\ AuthOthers

\* OAuthSignIn: it enters a.oauthManager.ValidateCallback(provider, state, code)
OAuthSignIn(p, provider, state, code) ==
    /\ MayBegin(p)
    /\ pc' = [pc EXCEPT ![p] = "validateState_Get"]
    /\ req' = [req EXCEPT ![p] = [provider |-> provider, state |-> state, code |-> code]]
    /\ ret' = NoRet
    /\ frame' = [frame EXCEPT ![p] = [NewFrame("OAuthSignIn", "") EXCEPT
                                         !.provider = provider]]
    /\ ares' = NoARes
    /\ UNCHANGED <<now, store, users, passwords, nextUser, nextSession, tok>>
    /\ AuthOthers

\* OAuthSignIn as it would be if the new user took the provider's id as it is
OAuthSignIn_user_bareID(p) ==
    /\ frame[p] # NoFrame /\ pc[p] = "idle" /\ frame[p].op = "OAuthSignIn"
    /\ LET oauthUser == ret.userInfo
           got == GetUserByEmail(users, passwords, oauthUser.Email)
           newUser == [ID |-> oauthUser.ID,
                       Email |-> oauthUser.Email, Name |-> oauthUser.Name,
                       AvatarURL |-> oauthUser.AvatarURL, Provider |-> oauthUser.Provider,
                       CreatedAt |-> now, UpdatedAt |-> now]
           created == CreateUser(users, passwords, newUser, "")
       IN IF ret.err # ""
          THEN /\ AuthFail(p, "OAuthSignIn", "oauth validation failed: " \o ret.err)
               /\ UNCHANGED <<users, passwords>>
          ELSE IF oauthUser.Email = ""
          THEN /\ AuthFail(p, "OAuthSignIn", "email is required from OAuth provider")
               /\ UNCHANGED <<users, passwords>>
          ELSE IF got.err # ""
          THEN /\ users' = created.users
               /\ passwords' = created.passwords
               /\ IF created.err # ""
                  THEN AuthFail(p, "OAuthSignIn",
                                "failed to create OAuth user: " \o created.err)
                  ELSE /\ pc' = [pc EXCEPT ![p] = "generateAuthResponse"]
                       /\ frame' = [frame EXCEPT ![p].email = newUser.Email,
                                                 ![p].user = newUser]
                       /\ UNCHANGED ares
          ELSE \E updateFails \in FaultChoices :
                  LET user == [users[oauthUser.Email] EXCEPT
                                  !.Name = oauthUser.Name,
                                  !.AvatarURL = oauthUser.AvatarURL,
                                  !.UpdatedAt = now]
                      updated == UpdateUser(Put(users, user.Email, user), user)
                  IN /\ users' = updated.users
                     /\ UNCHANGED passwords
                     /\ pc' = [pc EXCEPT ![p] = "generateAuthResponse"]
                     /\ frame' = [frame EXCEPT
                                     ![p].email = user.Email, ![p].user = user,
                                     ![p].faults = IF updateFails \/ updated.err # ""
                                                   THEN {"UpdateUser"} ELSE {}]
                     /\ UNCHANGED ares
    /\ req' = [req EXCEPT ![p] = NoReq]
    /\ stateData' = [stateData EXCEPT ![p] = NoStateData]
    /\ ret' = NoRet
    /\ UNCHANGED <<now, store, nextUser, nextSession, tok>>
    /\ UNCHANGED <<config, nextState, issued, passCount>>
    /\ UNCHANGED <<mgr, origin, jres, kvVars, lockVars, signedUp, http>>

\* OAuthSignIn as it would be without the check of the e-mail
OAuthSignIn_user_anyEmail(p) ==
    /\ frame[p] # NoFrame /\ pc[p] = "idle" /\ frame[p].op = "OAuthSignIn"
    /\ LET oauthUser == ret.userInfo
           got == GetUserByEmail(users, passwords, oauthUser.Email)
           newUser == [ID |-> frame[p].provider \o "_" \o oauthUser.ID,
                       Email |-> oauthUser.Email, Name |-> oauthUser.Name,
                       AvatarURL |-> oauthUser.AvatarURL, Provider |-> oauthUser.Provider,
                       CreatedAt |-> now, UpdatedAt |-> now]
           created == CreateUser(users, passwords, newUser, "")
       IN IF ret.err # ""
          THEN /\ AuthFail(p, "OAuthSignIn", "oauth validation failed: " \o ret.err)
               /\ UNCHANGED <<users, passwords>>
          ELSE IF got.err # ""
          THEN /\ users' = created.users
               /\ passwords' = created.passwords
               /\ IF created.err # ""
                  THEN AuthFail(p, "OAuthSignIn",
                                "failed to create OAuth user: " \o created.err)
                  ELSE /\ pc' = [pc EXCEPT ![p] = "generateAuthResponse"]
                       /\ frame' = [frame EXCEPT ![p].email = newUser.Email,
                                                 ![p].user = newUser]
                       /\ UNCHANGED ares
          ELSE \E updateFails \in FaultChoices :
                  LET user == [users[oauthUser.Email] EXCEPT
                                  !.Name = oauthUser.Name,
                                  !.AvatarURL = oauthUser.AvatarURL,
                                  !.UpdatedAt = now]
                      updated == UpdateUser(Put(users, user.Email, user), user)
                  IN /\ users' = updated.users
                     /\ UNCHANGED passwords
                     /\ pc' = [pc EXCEPT ![p] = "generateAuthResponse"]
                     /\ frame' = [frame EXCEPT
                                     ![p].email = user.Email, ![p].user = user,
                                     ![p].faults = IF updateFails \/ updated.err # ""
                                                   THEN {"UpdateUser"} ELSE {}]
                     /\ UNCHANGED ares
    /\ req' = [req EXCEPT ![p] = NoReq]
    /\ stateData' = [stateData EXCEPT ![p] = NoStateData]
    /\ ret' = NoRet
    /\ UNCHANGED <<now, store, nextUser, nextSession, tok>>
    /\ UNCHANGED <<config, nextState, issued, passCount>>
    /\ UNCHANGED <<mgr, origin, jres, kvVars, lockVars, signedUp, http>>

\* OAuthSignIn once ValidateCallback has returned: the e-mail check, the
\* lookup, and the creation of the user or its refresh.  The *User that
\* GetUserByEmail returned is the stored record, so the refresh is in the
\* store before UpdateUser is called, whether UpdateUser fails or not.
OAuthSignIn_user(p) ==
    /\ frame[p] # NoFrame /\ pc[p] = "idle" /\ frame[p].op = "OAuthSignIn"
    /\ LET oauthUser == ret.userInfo
           got == GetUserByEmail(users, passwords, oauthUser.Email)
           newUser == [ID |-> frame[p].provider \o "_" \o oauthUser.ID,
                       Email |-> oauthUser.Email, Name |-> oauthUser.Name,
                       AvatarURL |-> oauthUser.AvatarURL, Provider |-> oauthUser.Provider,
                       CreatedAt |-> now, UpdatedAt |-> now]
           created == CreateUser(users, passwords, newUser, "")
       IN IF ret.err # ""
          THEN /\ AuthFail(p, "OAuthSignIn", "oauth validation failed: " \o ret.err)
               /\ UNCHANGED <<users, passwords>>
          ELSE IF oauthUser.Email = ""
          THEN /\ AuthFail(p, "OAuthSignIn", "email is required from OAuth provider")
               /\ UNCHANGED <<users, passwords>>
          ELSE IF got.err # ""
          THEN /\ users' = created.users
               /\ passwords' = created.passwords
               /\ IF created.err # ""
                  THEN AuthFail(p, "OAuthSignIn",
                                "failed to create OAuth user: " \o created.err)
                  ELSE /\ pc' = [pc EXCEPT ![p] = "generateAuthResponse"]
                       /\ frame' = [frame EXCEPT ![p].email = newUser.Email,
                                                 ![p].user = newUser]
                       /\ UNCHANGED ares
          ELSE \E updateFails \in FaultChoices :
                  LET user == [users[oauthUser.Email] EXCEPT
                                  !.Name = oauthUser.Name,
                                  !.AvatarURL = oauthUser.AvatarURL,
                                  !.UpdatedAt = now]
                      updated == UpdateUser(Put(users, user.Email, user), user)
                  IN /\ users' = updated.users
                     /\ UNCHANGED passwords
                     /\ pc' = [pc EXCEPT ![p] = "generateAuthResponse"]
                     /\ frame' = [frame EXCEPT
                                     ![p].email = user.Email, ![p].user = user,
                                     ![p].faults = IF updateFails \/ updated.err # ""
                                                   THEN {"UpdateUser"} ELSE {}]
                     /\ UNCHANGED ares
    /\ req' = [req EXCEPT ![p] = NoReq]
    /\ stateData' = [stateData EXCEPT ![p] = NoStateData]
    /\ ret' = NoRet
    /\ UNCHANGED <<now, store, nextUser, nextSession, tok>>
    /\ UNCHANGED <<config, nextState, issued, passCount>>
    /\ UNCHANGED <<mgr, origin, jres, kvVars, lockVars, signedUp, http>>

\* how many SignUp calls have returned a response for the e-mail
SignedUp(email) == IF email \in DOMAIN signedUp THEN signedUp[email] ELSE 0

\* generateAuthResponse as it would be if a failing CreateSession were returned
generateAuthResponse_session_aborts(p) ==
    /\ pc[p] = "generateAuthResponse" /\ nextSession <= MaxSessions
    /\ LET user == frame[p].user
           resp == generateAuthResponse(mgr[Service], user, now)
       IN /\ \E setFails \in FaultChoices :
                /\ store' = IF setFails THEN store
                            ELSE CreateSession(store, nextSession, user.ID, user.Email,
                                               config.JWTExpiration, now)
                /\ ares' = IF setFails
                           THEN [op |-> frame[p].op, ok |-> FALSE,
                                 err |-> "failed to create session", resp |-> NoResponse,
                                 faults |-> frame[p].faults \cup {"Set"}, by |-> p]
                           ELSE [op |-> frame[p].op, ok |-> TRUE, err |-> "", resp |-> resp,
                                 faults |-> frame[p].faults, by |-> p]
                /\ signedUp' = IF frame[p].op = "SignUp" /\ ~setFails
                               THEN Put(signedUp, frame[p].email,
                                        SignedUp(frame[p].email) + 1)
                               ELSE signedUp
    /\ nextSession' = nextSession + 1
    /\ pc' = [pc EXCEPT ![p] = "idle"]
    /\ frame' = [frame EXCEPT ![p] = NoFrame]
    /\ UNCHANGED <<now, users, passwords, nextUser, tok, req, ret>>
    /\ UNCHANGED <<config, nextState, issued, stateData, passCount>>
    /\ UNCHANGED <<mgr, origin, jres, kvVars, lockVars, http>>

\* generateAuthResponse: the two tokens of the manager, CreateSession with
\* its error only logged, and the response; the session's duration and the
\* response's ExpiresIn are read from a.config at the call
generateAuthResponse_session(p) ==
    /\ pc[p] = "generateAuthResponse" /\ nextSession <= MaxSessions
    /\ LET user == frame[p].user
           resp == [generateAuthResponse(mgr[Service], user, now) EXCEPT
                       !.ExpiresIn = config.JWTExpiration \div TicksPerSecond]
       IN /\ \E setFails \in FaultChoices :
                /\ store' = IF setFails THEN store
                            ELSE CreateSession(store, nextSession, user.ID, user.Email,
                                               config.JWTExpiration, now)
                /\ ares' = [op |-> frame[p].op, ok |-> TRUE, err |-> "", resp |-> resp,
                            faults |-> frame[p].faults
                                       \cup (IF setFails THEN {"Set"} ELSE {}),
                            by |-> p]
    /\ nextSession' = nextSession + 1
    /\ pc' = [pc EXCEPT ![p] = "idle"]
    /\ frame' = [frame EXCEPT ![p] = NoFrame]
    /\ signedUp' = IF frame[p].op = "SignUp"
                   THEN Put(signedUp, frame[p].email, SignedUp(frame[p].email) + 1)
                   ELSE signedUp
    /\ UNCHANGED <<now, users, passwords, nextUser, tok, req, ret>>
    /\ UNCHANGED <<config, nextState, issued, stateData, passCount>>
    /\ UNCHANGED <<mgr, origin, jres, kvVars, lockVars, http>>

\* GetOAuthURL: the default redirect, then GetAuthURL
GetOAuthURL(provider, redirectURI) ==
    GetAuthURL(provider, IF redirectURI = "" THEN config.FrontendSuccessURL
                         ELSE redirectURI)

----------------------------------------------------------------------------
(* SpecAuth: one AuthService over the in-process stores, its calls made    *)
(* one after the other while the clock moves, not as far as any expiry;    *)
(* the session store's Set and the user store's UpdateUser may fail.       *)
(* SpecAuthConc: SignUp from concurrent goroutines.                        *)

AuthEmails == {"ann@x", "bob@x"}
\* the requests of SignUp
SignUpEmails == {"ann@x"}
SignUpPasswords == {"pw1"}
Passwords == {"", "pw1", "pw2"}

\* the tokens a caller has: those of the response it has just received
TokensAtHand ==
    IF ares # NoARes /\ ares.ok THEN {ares.resp.AccessToken, ares.resp.RefreshToken} ELSE {}
Names == {"Annie"}

AuthConfigs ==
    [GoogleClientID : {"gid"}, GitHubClientID : {"hid"}, OAuthStateExpiration : {2},
     FrontendSuccessURL : {"https://app/a"},
     FrontendErrorURL : {"https://app/error"}, JWTExpiration : {2}, BCryptCost : {10},
     AllowSignup : BOOLEAN]

InitAuth ==
    /\ now = 0
    /\ store = EmptyMap
    /\ config \in AuthConfigs
    /\ nextState = 1
    /\ issued = EmptyMap
    /\ pc = [p \in Callers |-> "idle"]
    /\ req = [p \in Callers |-> NoReq]
    /\ stateData = [p \in Callers |-> NoStateData]
    /\ ret = NoRet
    /\ passCount = [s \in 0..(MaxStates + 1) |-> 0]
    /\ mgr = [m \in Managers |->
                 [secret |-> IF m = Service THEN "secret1" ELSE "secret2",
                  issuer |-> Issuer, expiresIn |-> config.JWTExpiration]]
    /\ tok = NoToken
    /\ origin = NoOrigin
    /\ jres = NoJRes
    /\ users = EmptyMap
    /\ nextSession = 1
    /\ latest = EmptyMap
    /\ redis = EmptyMap
    /\ sres = NoSRes
    /\ mu = Unlocked
    /\ mlog = NoMutation
    /\ passwords = EmptyMap
    /\ nextUser = 1
    /\ frame = [p \in Callers |-> NoFrame]
    /\ ares = NoARes
    /\ signedUp = EmptyMap
    /\ http = NoHTTP

\* the one caller of the sequential specification
Solo == "c1"

\* the caller has been through every OAuth round it began
NoStateWaiting == \A key \in DOMAIN store : key[1] # statePrefix

\* the clock moves between the calls, and stops short of the first expiry
AuthTick == AuthIdle(Solo) /\ now + 1 < config.JWTExpiration /\ Tick

NextAuth ==
    \/ \E email \in SignUpEmails, password \in SignUpPasswords, name \in Names :
          SignUp(Solo, email, password, name)
    \/ SignUp_UserExists(Solo)
    \/ SignUp_CreateUser(Solo)
    \/ \E email \in AuthEmails, password \in Passwords : SignIn(Solo, email, password)
    \/ \E refreshToken \in TokensAtHand : RefreshToken(Solo, refreshToken)
    \/ AuthIdle(Solo) /\ NoStateWaiting
          /\ \E provider \in {ProviderGoogle, ProviderGitHub} : GetOAuthURL(provider, "")
    \/ \E provider \in Providers, state \in Presentable, code \in Codes :
          OAuthSignIn(Solo, provider, state, code)
    \/ validateState_Get(Solo)
    \/ validateState_Delete(Solo)
    \/ validateState_Expiry(Solo)
    \/ exchangeOf(Solo, PrivateProfiles(GoogleProfiles), PrivateProfiles(GitHubProfiles),
                  SignInEmailResponses)
    \/ OAuthSignIn_user(Solo)
    \/ generateAuthResponse_session(Solo)
    \/ AuthTick

SpecAuth == InitAuth /\ [][NextAuth]_vars

\* SignUp from every caller at once, registration enabled; the clock moves at
\* any moment, and stops short of the first expiry
InitAuthConc == InitAuth /\ config.AllowSignup

NextAuthConc ==
    \/ \E p \in Callers, email \in SignUpEmails, password \in SignUpPasswords,
          name \in Names : SignUp(p, email, password, name)
    \/ \E p \in Callers : SignUp_UserExists(p)
    \/ \E p \in Callers : SignUp_CreateUser(p)
    \/ \E p \in Callers : generateAuthResponse_session(p)
    \/ now + 1 < config.JWTExpiration /\ Tick

SpecAuthConc == InitAuthConc /\ [][NextAuthConc]_vars

----------------------------------------------------------------------------
(* SpecEmail: getGitHubEmail by itself, over every answer of the e-mail    *)
(* endpoint; ret keeps the answer it was given and what it returned.       *)

Call_getGitHubEmail(accessToken, emailResp) ==
    /\ LET looked == getGitHubEmail(accessToken, emailResp)
       IN ret' = [op |-> "getGitHubEmail", emailResp |-> emailResp,
                  email |-> looked.email, err |-> looked.err]
    /\ UNCHANGED <<now, store, config, nextState, issued, pc, req, stateData, passCount>>
    /\ UNCHANGED <<jwtVars, kvVars, lockVars, authVars>>

NextEmail == \E emailResp \in EmailResponses : Call_getGitHubEmail("at", emailResp)

SpecEmail == InitStore /\ [][NextEmail]_vars

----------------------------------------------------------------------------
(* SpecLive: Spec with the scheduling that the code justifies.  The steps   *)
(* of validateState are the caller's own and are taken when they can be.    *)
(* The step exchange is taken when the provider's endpoints have answered:  *)
(* http.Post and the http.Client{} of the callbacks have no Timeout and the *)
(* requests carry no context, so nothing in the program ends the wait, and  *)
(* no fairness is assumed of it.                                            *)

validateState(p) ==
    \/ validateState_Get(p)
    \/ validateState_Delete(p)
    \/ validateState_Expiry(p)

SpecLive == Init /\ [][Next]_vars /\ WF_vars(validateState("c1"))

----------------------------------------------------------------------------
(* SpecCancel: SpecAuth with a caller that may cancel the context of its    *)
(* call, or whose deadline may pass, at any moment of the call.  No step of *)
(* the service reads ctx.Done() or ctx.Err(): OAuthSignIn hands its ctx to  *)
(* the user store and to CreateSession only, ValidateCallback and           *)
(* GetAuthURL take none and use context.Background() for the store.         *)

Cancel(p) ==
    /\ frame[p] # NoFrame /\ frame[p].ctx = "live"
    /\ frame' = [frame EXCEPT ![p].ctx = "done"]
    /\ UNCHANGED <<now, store, oauthVars, jwtVars, kvVars, lockVars>>
    /\ UNCHANGED <<passwords, nextUser, ares, signedUp, http>>

NextCancel ==
    \/ NextAuth
    \/ Cancel(Solo)

SpecCancel == InitAuth /\ [][NextCancel]_vars

----------------------------------------------------------------------------
(* SpecLogout: SpecAuth and POST /auth/logout as RegisterRoutes registers   *)
(* it: LogoutHandler behind OptionalAuthMiddleware.  An Authorization       *)
(* header is its scheme and its token; ret keeps what the handler answered. *)

NoHeader == [scheme |-> "", token |-> NoToken]

\* the headers a client can send: none, and those made of the tokens of its
\* last response
AuthHeaders ==
    {NoHeader} \cup [scheme : {"Bearer", "Basic"}, token : TokensAtHand]

\* OptionalAuthMiddleware: the values it has set in the request's context when
\* it calls next; it sets none without a valid bearer token
OptionalAuthMiddleware(j, authHeader, t) ==
    IF authHeader.scheme = "" THEN EmptyMap
    ELSE IF authHeader.scheme # "Bearer" THEN EmptyMap
    ELSE LET v == ValidateToken(j, authHeader.token, t)
         IN IF ~v.ok THEN EmptyMap
            ELSE [user_id |-> v.claims.UserID, user_email |-> v.claims.Email,
                  user_name |-> v.claims.Name, user_provider |-> v.claims.Provider,
                  claims |-> v.claims]

\* the session id "", which generateSessionID never draws
EmptySessionID == 0

\* sessionID, _ := ctx.Get("session_id").(string)
GetSessionFromContext(c) ==
    IF "session_id" \in DOMAIN c THEN c["session_id"] ELSE EmptySessionID

\* AuthService.Logout: the store after it
Logout(st, sessionID) ==
    IF sessionID # EmptySessionID THEN InvalidateSession(st, sessionID) ELSE st

\* POST /auth/logout
LogoutHandler(p, authHeader) ==
    /\ MayBegin(p)
    /\ LET c == OptionalAuthMiddleware(mgr[Service], authHeader, now)
           sessionID == GetSessionFromContext(c)
       IN /\ store' = Logout(store, sessionID)
          /\ ret' = [op |-> "LogoutHandler", status |-> 200,
                     message |-> "Successfully logged out",
                     authenticated |-> "user_id" \in DOMAIN c,
                     sessionID |-> sessionID, err |-> ""]
    /\ UNCHANGED <<now, config, nextState, issued, pc, req, stateData, passCount>>
    /\ UNCHANGED <<jwtVars, kvVars, lockVars, authVars>>

NextLogout ==
    \/ NextAuth
    \/ \E authHeader \in AuthHeaders : LogoutHandler(Solo, authHeader)

SpecLogout == InitAuth /\ [][NextLogout]_vars

----------------------------------------------------------------------------
(* SpecLifetime: the tokens of a response under access lifetimes from one  *)
(* tick to more than the 30 days of the refresh token.  NewConfig sets 24  *)
(* hours and nothing checks the value a program sets afterwards.           *)

\* 30 * 24 * time.Hour, in ticks
ThirtyDays == RefreshLifetimeSeconds * TicksPerSecond

\* config.JWTExpiration: a tick, the default of 24 hours, and the values around
\* 30 days
AccessLifetimes ==
    {1, (RefreshLifetimeSeconds \div 30) * TicksPerSecond,
     ThirtyDays - TicksPerSecond, ThirtyDays - 1, ThirtyDays, ThirtyDays + 1}

InitLifetime ==
    /\ now = 0
    /\ store = EmptyMap
    /\ config = [GoogleClientID |-> "", GitHubClientID |-> "", OAuthStateExpiration |-> 0]
    /\ nextState = 1
    /\ issued = EmptyMap
    /\ pc = [p \in Callers |-> "idle"]
    /\ req = [p \in Callers |-> NoReq]
    /\ stateData = [p \in Callers |-> NoStateData]
    /\ ret = NoRet
    /\ passCount = [s \in 0..(MaxStates + 1) |-> 0]
    /\ \E l \in AccessLifetimes :
          mgr = [m \in Managers |->
                    [secret |-> IF m = "A" THEN "secret1" ELSE "secret2",
                     issuer |-> Issuer, expiresIn |-> l]]
    /\ tok = NoToken
    /\ origin = NoOrigin
    /\ jres = NoJRes
    /\ users = KnownUsers
    /\ nextSession = 1
    /\ latest = EmptyMap
    /\ redis = EmptyMap
    /\ sres = NoSRes
    /\ mu = Unlocked
    /\ mlog = NoMutation
    /\ passwords = EmptyMap
    /\ nextUser = 1
    /\ frame = [p \in Callers |-> NoFrame]
    /\ ares = NoARes
    /\ signedUp = EmptyMap
    /\ http = NoHTTP

NextLifetime ==
    \/ \E m \in Managers, userID \in UserIDs : Call_GenerateRefreshToken(m, userID)
    \/ \E m \in Managers : Call_RefreshToken(m)
    \/ Tick

SpecLifetime == InitLifetime /\ [][NextLifetime]_vars

----------------------------------------------------------------------------
(* SpecRefresh: SpecJWT, and refresh tokens for a user id that the user    *)
(* store does not have.                                                    *)

UnknownUserID == "u2"

NextRefresh ==
    \/ NextJWT
    \/ \E m \in Managers : Call_GenerateRefreshToken(m, UnknownUserID)

SpecRefresh == InitJWT /\ [][NextRefresh]_vars

----------------------------------------------------------------------------
(* SpecStateless: one AuthService whose client keeps a token of a response *)
(* and presents it later, to ValidateToken, to ValidateRefreshToken and to *)
(* RefreshToken, while sessions are created, expire and are logged out.    *)
(* Manager B is another service's, with another secret.                    *)

\* the client keeps a token of the last response
Keep(token) ==
    /\ tok = NoToken
    /\ tok' = token
    /\ origin' = [kind |-> IF token.type = "refresh" THEN "refresh" ELSE "access",
                  by |-> Service, at |-> FromUnix(token.iat),
                  claims |-> [NoClaims EXCEPT !.UserID = StringClaim(token.user_id)]]
    /\ UNCHANGED <<now, store, oauthVars, kvVars, lockVars, authVars>>
    /\ UNCHANGED <<mgr, jres, users, nextSession>>

\* AuthService.Logout(ctx, sessionID)
Call_Logout(sessionID) ==
    /\ AuthIdle(Solo)
    /\ store' = Logout(store, sessionID)
    /\ store' # store
    /\ UNCHANGED <<now, oauthVars, jwtVars, kvVars, lockVars, authVars>>

NextStateless ==
    \/ \E email \in SignUpEmails, password \in SignUpPasswords, name \in Names :
          SignUp(Solo, email, password, name)
    \/ SignUp_UserExists(Solo)
    \/ SignUp_CreateUser(Solo)
    \/ generateAuthResponse_session(Solo)
    \/ \E token \in TokensAtHand : Keep(token)
    \/ tok # NoToken /\ RefreshToken(Solo, tok)
    \/ \E m \in Managers : Call_ValidateToken(m)
    \/ \E m \in Managers : Call_ValidateRefreshToken(m)
    \/ \E sessionID \in SessionIDs : Call_Logout(sessionID)
    \/ AuthIdle(Solo) /\ Tick

SpecStateless == InitAuth /\ [][NextStateless]_vars

----------------------------------------------------------------------------
(* RedisSessionStore: the commands it sends, and what the server makes of  *)
(* them.  client.Set with expiration 0 sends SET without an expiry, which  *)
(* stores a key that does not expire; with a positive expiration the key   *)
(* carries its expiry, and the server no longer serves it once that has    *)
(* passed.                                                                 *)

RedisSessionStore_Set(rs, key, value, expiration, t) ==
    Put(rs, key, [value |-> Marshal(value), volatile |-> expiration > 0,
                  expireAt |-> t + expiration])

\* the server has the key and its expiry, if it has one, has not passed
RedisServes(rs, key, t) ==
    key \in DOMAIN rs /\ (rs[key].volatile => ~(t > rs[key].expireAt))

\* client.Get: redis.Nil becomes "key not found"
RedisSessionStore_Get(rs, key, t) ==
    IF ~RedisServes(rs, key, t)
    THEN [err |-> "key not found", found |-> FALSE, dest |-> <<>>]
    ELSE [err |-> "", found |-> TRUE, dest |-> Unmarshal(rs[key].value)]

RedisSessionStore_Delete(rs, keys) == Remove(rs, keys)

\* client.Exists: count > 0
RedisSessionStore_Exists(rs, keys, t) == \E key \in keys : RedisServes(rs, key, t)

----------------------------------------------------------------------------
(* SpecBackends: the same calls made of a MemorySessionStore and of a       *)
(* RedisSessionStore, side by side under one clock; sres keeps what each of *)
(* them answered.                                                           *)

Both_Set(key, value, expiration) ==
    /\ store' = MemorySessionStore_Set(store, key, value, expiration, now)
    /\ redis' = RedisSessionStore_Set(redis, key, value, expiration, now)
    /\ latest' = Put(latest, key, [value |-> value, at |-> now, ttl |-> expiration,
                                   deleted |-> FALSE])
    /\ sres' = [op |-> "Set", keys |-> {key}, found |-> FALSE, dest |-> "", err |-> "",
                redisFound |-> FALSE, redisDest |-> ""]
    /\ UNCHANGED <<now, oauthVars, jwtVars, lockVars, authVars>>

Both_Get(key) ==
    /\ LET r == MemorySessionStore_Get(store, key, now)
           s == RedisSessionStore_Get(redis, key, now)
       IN /\ store' = r.store
          /\ sres' = [op |-> "Get", keys |-> {key}, found |-> r.found,
                      dest |-> IF r.found THEN r.dest ELSE "", err |-> r.err,
                      redisFound |-> s.found,
                      redisDest |-> IF s.found THEN s.dest ELSE ""]
    /\ UNCHANGED <<now, oauthVars, jwtVars, lockVars, authVars, latest, redis>>

Both_Delete(keys) ==
    /\ store' = MemorySessionStore_Delete(store, keys)
    /\ redis' = RedisSessionStore_Delete(redis, keys)
    /\ latest' = [k \in DOMAIN latest |->
                    IF k \in keys THEN [latest[k] EXCEPT !.deleted = TRUE] ELSE latest[k]]
    /\ sres' = [op |-> "Delete", keys |-> keys, found |-> FALSE, dest |-> "", err |-> "",
                redisFound |-> FALSE, redisDest |-> ""]
    /\ UNCHANGED <<now, oauthVars, jwtVars, lockVars, authVars>>

Both_Exists(keys) ==
    /\ sres' = [op |-> "Exists", keys |-> keys,
                found |-> MemorySessionStore_Exists(store, keys, now),
                dest |-> "", err |-> "",
                redisFound |-> RedisSessionStore_Exists(redis, keys, now),
                redisDest |-> ""]
    /\ UNCHANGED <<now, store, oauthVars, jwtVars, lockVars, authVars, latest, redis>>

NextBackends ==
    \/ \E key \in Keys, value \in Values, expiration \in TTLs :
          Both_Set(key, value, expiration)
    \/ \E key \in Keys : Both_Get(key)
    \/ \E keys \in SUBSET Keys : Both_Delete(keys)
    \/ \E keys \in SUBSET Keys : Both_Exists(keys)
    \/ Sweep
    \/ Tick

SpecBackends == InitStore /\ [][NextBackends]_vars

----------------------------------------------------------------------------
(* SpecSweep: a MemorySessionStore that is written to and never read:      *)
(* GetAuthURL sets state records, and there is no Get, no Delete and no    *)
(* callback.  NewMemorySessionStore has                                    *)
(* started the cleanup goroutine, whose loop over ticker.C never ends, so  *)
(* the sweep is taken when it has something to evict; the clock advances.  *)

\* the keys that the calls of SpecSweep write
SweptKeys == {StateKey(state) : state \in 1..MaxStates}

\* the store holds key with the expiry expiresAt
Holds(key, expiresAt) == key \in DOMAIN store /\ store[key].expiresAt = expiresAt

NextSweep ==
    \/ \E provider \in Providers, redirectURI \in RedirectURIs :
          GetAuthURL(provider, redirectURI)
    \/ Sweep
    \/ Tick

SpecSweep == Init /\ [][NextSweep]_vars /\ WF_vars(Sweep) /\ WF_vars(Tick)

----------------------------------------------------------------------------
(* SpecGuard: requests to a route behind AuthMiddleware and to one behind    *)
(* OptionalAuthMiddleware of service A.  The client presents the token it    *)
(* holds (an access or a refresh token of either manager, or one made        *)
(* elsewhere) under a scheme, or sends no Authorization header; ret keeps    *)
(* what the middleware did.                                                  *)

Schemes == {"", "Basic", "Bearer"}

\* the Authorization header of a request: absent, or "<scheme> <token>"
HeaderOf(scheme, token) ==
    IF scheme = "" THEN NoHeader ELSE [scheme |-> scheme, token |-> token]

\* an AuthMiddleware that takes the token of any scheme
AuthMiddleware_anyScheme(j, authHeader, t) ==
    IF authHeader.scheme = ""
    THEN [status |-> 401, next |-> FALSE, c |-> EmptyMap,
          error |-> "Authorization header is required"]
    ELSE LET v == ValidateToken(j, authHeader.token, t)
         IN IF ~v.ok
            THEN [status |-> 401, next |-> FALSE, c |-> EmptyMap,
                  error |-> "Invalid token: " \o v.err]
            ELSE [status |-> 200, next |-> TRUE,
                  c |-> [user_id |-> v.claims.UserID, user_email |-> v.claims.Email,
                         user_name |-> v.claims.Name,
                         user_provider |-> v.claims.Provider, claims |-> v.claims],
                  error |-> ""]

\* AuthMiddleware: the status it answers with, whether it has called next, and
\* the values it has set in the request's context; when next is called the
\* status is the route's own, 200 here
AuthMiddleware(j, authHeader, t) ==
    IF authHeader.scheme = ""
    THEN [status |-> 401, next |-> FALSE, c |-> EmptyMap,
          error |-> "Authorization header is required"]
    ELSE IF authHeader.scheme # "Bearer"
    THEN [status |-> 401, next |-> FALSE, c |-> EmptyMap,
          error |-> "Bearer token is required"]
    ELSE LET v == ValidateToken(j, authHeader.token, t)
         IN IF ~v.ok
            THEN [status |-> 401, next |-> FALSE, c |-> EmptyMap,
                  error |-> "Invalid token: " \o v.err]
            ELSE [status |-> 200, next |-> TRUE,
                  c |-> [user_id |-> v.claims.UserID, user_email |-> v.claims.Email,
                         user_name |-> v.claims.Name,
                         user_provider |-> v.claims.Provider, claims |-> v.claims],
                  error |-> ""]

\* a request to a route behind AuthMiddleware
Call_AuthMiddleware(scheme) ==
    /\ tok # NoToken
    /\ LET r == AuthMiddleware(mgr[Service], HeaderOf(scheme, tok), now)
       IN ret' = [op |-> "AuthMiddleware", scheme |-> scheme, at |-> now,
                  status |-> r.status, next |-> r.next, c |-> r.c, error |-> r.error]
    /\ UNCHANGED <<now, store, config, nextState, issued, pc, req, stateData, passCount>>
    /\ UNCHANGED <<jwtVars, kvVars, lockVars, authVars>>

\* a request to a route behind OptionalAuthMiddleware, which calls next on
\* every path
Call_OptionalAuthMiddleware(scheme) ==
    /\ tok # NoToken
    /\ ret' = [op |-> "OptionalAuthMiddleware", scheme |-> scheme, at |-> now,
               status |-> 200, next |-> TRUE,
               c |-> OptionalAuthMiddleware(mgr[Service], HeaderOf(scheme, tok), now),
               error |-> ""]
    /\ UNCHANGED <<now, store, config, nextState, issued, pc, req, stateData, passCount>>
    /\ UNCHANGED <<jwtVars, kvVars, lockVars, authVars>>

NextGuard ==
    \/ \E m \in Managers, claims \in TokenClaimsSet : Call_GenerateToken(m, claims)
    \/ \E m \in Managers, userID \in UserIDs : Call_GenerateRefreshToken(m, userID)
    \/ \E token \in ForgedTokens : Forge(token)
    \/ \E scheme \in Schemes : Call_AuthMiddleware(scheme)
    \/ \E scheme \in Schemes : Call_OptionalAuthMiddleware(scheme)
    \/ Tick

SpecGuard == InitJWT /\ [][NextGuard]_vars

----------------------------------------------------------------------------
(* SpecRedisOAuth: the OAuthManager over a RedisSessionStore.  A command to  *)
(* the server can fail (the connection is down, the command times out), and  *)
(* then Set, Get and Delete return the client's error and the server's keys  *)
(* stay as they are.                                                         *)

\* GetAuthURL, the state record set in Redis
GetAuthURL_Redis(provider, redirectURI) ==
    /\ nextState <= MaxStates
    /\ \E fails \in FaultChoices :
          LET state == nextState
              sd == [State |-> state, RedirectURI |-> redirectURI,
                     ExpiresAt |-> now + config.OAuthStateExpiration]
              built == IF provider = ProviderGoogle THEN getGoogleAuthURL(config, state)
                       ELSE IF provider = ProviderGitHub THEN getGitHubAuthURL(config, state)
                       ELSE [url |-> <<>>, err |-> "unsupported provider"]
          IN /\ nextState' = nextState + 1
             /\ IF fails
                THEN /\ ret' = [NoRet EXCEPT !.op = "GetAuthURL", !.state = state,
                                             !.err = "failed to store oauth state"]
                     /\ UNCHANGED <<redis, issued>>
                ELSE /\ redis' = RedisSessionStore_Set(redis, StateKey(state), sd,
                                                       config.OAuthStateExpiration, now)
                     /\ issued' = Put(issued, state, sd)
                     /\ ret' = [NoRet EXCEPT !.op = "GetAuthURL", !.state = state,
                                             !.url = built.url, !.err = built.err]
    /\ UNCHANGED <<now, store, config, pc, req, stateData, passCount>>
    /\ UNCHANGED <<jwtVars, latest, sres, lockVars, authVars>>

\* validateState: o.sessionStore.Get(ctx, stateKey, &stateData), of Redis
validateState_Get_Redis(p) ==
    /\ pc[p] = "validateState_Get"
    /\ \E fails \in FaultChoices :
          LET got == RedisSessionStore_Get(redis, StateKey(req[p].state), now)
          IN IF fails \/ got.err # ""
             THEN Return(p, [NoRet EXCEPT !.op = "ValidateCallback",
                                          !.state = req[p].state,
                                          !.err = ErrStateNotFound])
             ELSE /\ stateData' = [stateData EXCEPT ![p] = got.dest]
                  /\ pc' = [pc EXCEPT ![p] = "validateState_Delete"]
                  /\ UNCHANGED <<req, ret>>
    /\ UNCHANGED <<now, store, config, nextState, issued, passCount>>
    /\ UNCHANGED <<jwtVars, kvVars, lockVars, authVars>>

\* validateState: o.sessionStore.Delete(ctx, stateKey) of Redis; the error
\* that Delete returns is not assigned, and validateState goes on either way
validateState_Delete_Redis(p) ==
    /\ pc[p] = "validateState_Delete"
    /\ \E fails \in FaultChoices :
          redis' = IF fails THEN redis
                   ELSE RedisSessionStore_Delete(redis, {StateKey(req[p].state)})
    /\ pc' = [pc EXCEPT ![p] = "validateState_Expiry"]
    /\ UNCHANGED <<now, store, config, nextState, issued, req, stateData, ret, passCount>>
    /\ UNCHANGED <<jwtVars, latest, sres, lockVars, authVars>>

\* a state whose record has stayed in Redis is presented at most this often
MaxReplays == 2

NextRedisOAuth ==
    \/ \E provider \in Providers, redirectURI \in RedirectURIs :
          Idle /\ GetAuthURL_Redis(provider, redirectURI)
    \/ \E provider \in Providers, state \in Presentable, code \in Codes :
          /\ Idle /\ passCount[state] < MaxReplays
          /\ ValidateCallback(Solo, provider, state, code)
    \/ validateState_Get_Redis(Solo)
    \/ validateState_Delete_Redis(Solo)
    \/ validateState_Expiry(Solo)
    \/ exchange(Solo)
    \/ Tick

SpecRedisOAuth == Init /\ [][NextRedisOAuth]_vars

----------------------------------------------------------------------------
(* SpecRedirect: the OAuth routes of GenericAuthHandlers, one request after *)
(* the other.  GET /auth/<provider> starts a flow with the redirect_uri of  *)
(* its query; GET /auth/<provider>/callback runs OAuthSignIn and redirects  *)
(* the browser.  http keeps the callback's query while it is in flight      *)
(* (status 0) and the redirect it answered with.                            *)

\* the providers the OAuth routes are registered for
RouteProviders == {ProviderGoogle, ProviderGitHub}

\* the redirect_uri of the query, "" when the query has none
RedirectParams == RedirectURIs \cup {""}

\* the state of the query: those issued, one never issued, and none at all
NoStateParam == AbsentNum
StateParams == Presentable \cup {NoStateParam}

\* the code of the query, "" when the query has none
CodeParams == Codes \cup {""}

NoHandlerInFlight == IF http = NoHTTP THEN TRUE ELSE http.status # 0

\* OAuthHandler: redirect_uri or the configured success URL, then GetOAuthURL;
\* it redirects to ret.url, or answers 500 with ret.err
OAuthHandler(provider, redirectParam) ==
    /\ NoHandlerInFlight
    /\ GetOAuthURL(provider, IF redirectParam = "" THEN config.FrontendSuccessURL
                             ELSE redirectParam)

\* redirectWithError: 307 to the configured error URL, with the error
redirectWithError(request, errorMsg) ==
    [request EXCEPT !.status = 307, !.location = config.FrontendErrorURL,
                    !.error = errorMsg]

\* OAuthCallbackHandler: the checks of the query, and the entry into OAuthSignIn
OAuthCallbackHandler(p, provider, state, code) ==
    /\ MayBegin(p) /\ NoHandlerInFlight
    /\ LET request == [handler |-> "OAuthCallbackHandler", provider |-> provider,
                       state |-> state, code |-> code, status |-> 0,
                       location |-> "", error |-> ""]
       IN IF state = NoStateParam \/ code = ""
          THEN /\ http' = redirectWithError(request,
                                            IF state = NoStateParam THEN "state_missing"
                                            ELSE "code_missing")
               /\ UNCHANGED <<pc, req, ret, frame, ares>>
          ELSE /\ http' = request
               /\ pc' = [pc EXCEPT ![p] = "validateState_Get"]
               /\ req' = [req EXCEPT ![p] = [provider |-> provider, state |-> state,
                                             code |-> code]]
               /\ ret' = NoRet
               /\ frame' = [frame EXCEPT ![p] = [NewFrame("OAuthSignIn", "") EXCEPT
                                                    !.provider = provider]]
               /\ ares' = NoARes
    /\ UNCHANGED <<now, store, users, passwords, nextUser, nextSession, tok>>
    /\ UNCHANGED <<config, nextState, issued, stateData, passCount>>
    /\ UNCHANGED <<mgr, origin, jres, kvVars, lockVars, signedUp>>

\* OAuthCallbackHandler once OAuthSignIn has returned: the redirect to the
\* error URL, or to h.config.FrontendSuccessURL with the tokens in its query
OAuthCallbackHandler_Redirect(p) ==
    /\ http # NoHTTP /\ http.status = 0
    /\ AuthIdle(p) /\ ares # NoARes /\ ares.op = "OAuthSignIn"
    /\ http' = IF ~ares.ok THEN redirectWithError(http, ares.err)
               ELSE [http EXCEPT !.status = 307,
                                 !.location = config.FrontendSuccessURL]
    /\ UNCHANGED <<now, store, oauthVars, jwtVars, kvVars, lockVars>>
    /\ UNCHANGED <<passwords, nextUser, frame, ares, signedUp>>

NextRedirect ==
    \/ \E provider \in RouteProviders, redirectParam \in RedirectParams :
          AuthIdle(Solo) /\ OAuthHandler(provider, redirectParam)
    \/ \E provider \in RouteProviders, state \in StateParams, code \in CodeParams :
          OAuthCallbackHandler(Solo, provider, state, code)
    \/ validateState_Get(Solo)
    \/ validateState_Delete(Solo)
    \/ validateState_Expiry(Solo)
    \/ exchangeOf(Solo, GoogleProfiles, GitHubProfiles, SignInEmailResponses)
    \/ OAuthSignIn_user(Solo)
    \/ generateAuthResponse_session(Solo)
    \/ OAuthCallbackHandler_Redirect(Solo)
    \/ AuthTick

SpecRedirect == InitAuth /\ [][NextRedirect]_vars

----------------------------------------------------------------------------
(* SpecRemember: SpecAuth's sign-up and sign-in, in a program that assigns  *)
(* Config.JWTExpiration after NewAuthService, as the FAQ's "Remember Me"    *)
(* does.  AuthService keeps the *Config it was given, and its JWTManager    *)
(* keeps the expiresIn that NewJWTManager was called with.                  *)

\* the access lifetimes the program chooses between, in ticks: one second, two
RememberLifetimes == {TicksPerSecond, 2 * TicksPerSecond}

\* config.JWTExpiration = l
SetJWTExpiration(l) ==
    /\ AuthIdle(Solo)
    /\ config.JWTExpiration # l
    /\ config' = [config EXCEPT !.JWTExpiration = l]
    /\ UNCHANGED <<now, store, nextState, issued, pc, req, stateData, ret, passCount>>
    /\ UNCHANGED <<jwtVars, kvVars, lockVars, authVars>>

NextRemember ==
    \/ \E l \in RememberLifetimes : SetJWTExpiration(l)
    \/ \E email \in SignUpEmails, password \in SignUpPasswords, name \in Names :
          SignUp(Solo, email, password, name)
    \/ SignUp_UserExists(Solo)
    \/ SignUp_CreateUser(Solo)
    \/ \E email \in AuthEmails, password \in Passwords : SignIn(Solo, email, password)
    \/ generateAuthResponse_session(Solo)
    \/ AuthTick

SpecRemember == InitAuth /\ [][NextRemember]_vars

----------------------------------------------------------------------------
(* SpecGin: a request to a route behind the generic AuthMiddleware, through *)
(* the adapter of Gin, of Echo or of net/http.  The middleware begins with  *)
(* ctx.GetHeader("Authorization").  GinContext embeds *gin.Context and      *)
(* declares GetHeader itself, so the g.GetHeader(key) of its body is the    *)
(* method of GinContext again: every call pushes a frame and makes the same *)
(* call, until the goroutine's stack has reached its limit and the runtime  *)
(* ends the process.  http keeps the request in flight (status 0), the      *)
(* depth of the GetHeader calls, and the answer.                            *)

Adapters == {"gin", "echo", "stdlib"}

\* the frames of GetHeader that fit on the goroutine's stack
MaxStackDepth == 3

InFlight(adapters) ==
    IF http = NoHTTP THEN FALSE
    ELSE http.handler = "AuthMiddleware" /\ http.status = 0 /\ ~http.fatal
         /\ http.adapter \in adapters

\* WrapMiddleware: the adapter's context around the request, and the call of
\* the middleware, whose first statement calls ctx.GetHeader
WrapMiddleware(adapter, scheme) ==
    /\ tok # NoToken
    /\ IF http = NoHTTP THEN TRUE ELSE http.status # 0
    /\ http' = [handler |-> "AuthMiddleware", adapter |-> adapter, scheme |-> scheme,
                status |-> 0, next |-> FALSE, depth |-> 1, fatal |-> FALSE]
    /\ UNCHANGED <<now, store, oauthVars, jwtVars, kvVars, lockVars>>
    /\ UNCHANGED <<passwords, nextUser, frame, ares, signedUp>>

\* GinContext.GetHeader: return g.GetHeader(key), a call of itself
GinContext_GetHeader ==
    /\ InFlight({"gin"}) /\ http.depth < MaxStackDepth
    /\ http' = [http EXCEPT !.depth = @ + 1]
    /\ UNCHANGED <<now, store, oauthVars, jwtVars, kvVars, lockVars>>
    /\ UNCHANGED <<passwords, nextUser, frame, ares, signedUp>>

\* the call that no longer fits on the stack: the runtime's fatal error
\* "stack overflow", which no recover catches, ends the process
StackOverflow ==
    /\ InFlight({"gin"}) /\ http.depth = MaxStackDepth
    /\ http' = [http EXCEPT !.fatal = TRUE]
    /\ UNCHANGED <<now, store, oauthVars, jwtVars, kvVars, lockVars>>
    /\ UNCHANGED <<passwords, nextUser, frame, ares, signedUp>>

\* EchoContext.GetHeader and StdContext.GetHeader return Request.Header.Get(key),
\* and AuthMiddleware goes on to answer 401 or to call next
Header_Get ==
    /\ InFlight({"echo", "stdlib"})
    /\ LET r == AuthMiddleware(mgr[Service], HeaderOf(http.scheme, tok), now)
       IN http' = [http EXCEPT !.status = r.status, !.next = r.next, !.depth = 0]
    /\ UNCHANGED <<now, store, oauthVars, jwtVars, kvVars, lockVars>>
    /\ UNCHANGED <<passwords, nextUser, frame, ares, signedUp>>

NextGin ==
    \/ \E m \in Managers, claims \in TokenClaimsSet : Call_GenerateToken(m, claims)
    \/ \E m \in Managers, userID \in UserIDs : Call_GenerateRefreshToken(m, userID)
    \/ \E adapter \in Adapters, scheme \in Schemes : WrapMiddleware(adapter, scheme)
    \/ GinContext_GetHeader
    \/ StackOverflow
    \/ Header_Get
    \/ Tick

SpecGin == InitJWT /\ [][NextGin]_vars

\* a goroutine that is running a handler keeps running: it makes its next call
\* or return, and the runtime notices a stack that has reached its limit
SpecGinLive ==
    /\ SpecGin
    /\ WF_vars(GinContext_GetHeader) /\ WF_vars(StackOverflow) /\ WF_vars(Header_Get)

----------------------------------------------------------------------------
(* Claims about the OAuth state *)

\* validateState of caller p returns without error in this step
Passes(p) == pc[p] = "validateState_Expiry" /\ pc'[p] = "exchange"

\* the record of state value s is in the store
InStore(s) == StateKey(s) \in DOMAIN store

C2_NoTwoCallersPassSameState ==
    \A p, q \in Callers :
        (p # q /\ pc[p] = "exchange" /\ pc[q] = "exchange") => req[p].state # req[q].state

Pending(s) ==
    /\ s \in DOMAIN issued
    /\ InStore(s)
    /\ now <= store[StateKey(s)].expiresAt
    /\ now <= issued[s].ExpiresAt

\* C9: a ValidateCallback whose state value is not in the store fails with the state
\* error and leaves the store as it was; and a ValidateCallback with an issued state
\* value fails state validation only if that value was consumed before or its expiry
\* has passed, so a pending state is accepted whatever wrong values were tried before.
C9_WrongStateLeavesStoreUntouched ==
    /\ [][\A p \in Callers :
             (pc[p] = "validateState_Get" /\ pc'[p] # pc[p] /\ ~InStore(req[p].state))
                 => /\ store' = store
                    /\ ret'.op = "ValidateCallback"
                    /\ ret'.err = ErrStateNotFound
                    /\ ~ret'.passed
                    /\ \A s \in DOMAIN issued : Pending(s) => Pending(s)']_vars
    /\ []((ret.op = "ValidateCallback" /\ ~ret.passed /\ ret.state \in DOMAIN issued)
             => (passCount[ret.state] >= 1 \/ now > issued[ret.state].ExpiresAt))

\* C9 witness: a call with a value never issued has failed and an issued state is
\* still pending
C9_Witness ==
    /\ ret.op = "ValidateCallback"
    /\ ret.state = 0
    /\ ret.err = ErrStateNotFound
    /\ \E s \in DOMAIN issued : Pending(s)

----------------------------------------------------------------------------
(* Claims about the JWT manager *)

\* tok was issued by a manager as the given kind of token
IssuedAs(kind) == tok # NoToken /\ origin.kind = kind

\* the last call given tok was op
Answered(op) == jres # NoJRes /\ jres.op = op

\* the configured access lifetime of the manager that issued tok
Lifetime == mgr[origin.by].expiresIn

\* C3: every token produced by GenerateRefreshToken, for every user id, is
\* rejected by ValidateToken.
C3_RefreshTokenRejectedByValidateToken ==
    (IssuedAs("refresh") /\ Answered("ValidateToken")) => ~jres.ok

\* C4: ValidateRefreshToken, and with it RefreshToken, accepts no token
\* whose type claim is absent or differs from "refresh", however well signed
\* and unexpired; every token produced by GenerateToken is rejected by both.
C4_OnlyRefreshTypeAccepted ==
    /\ (Answered("ValidateRefreshToken") /\ jres.ok) => StringClaim(tok.type) = "refresh"
    /\ (Answered("RefreshToken") /\ jres.ok) => StringClaim(tok.type) = "refresh"
    /\ (IssuedAs("access") /\ (Answered("ValidateRefreshToken") \/ Answered("RefreshToken")))
          => ~jres.ok
    /\ (IssuedAs("access") /\ Answered("RefreshToken"))
          => (jres.err = "invalid refresh token" /\ store = EmptyMap)

\* a correctly signed, unexpired access token of an existing user has been
\* refused by RefreshToken of the service that issued it
C4_Witness ==
    /\ IssuedAs("access") /\ Answered("RefreshToken")
    /\ jres.by = origin.by
    /\ Parse(mgr[jres.by], tok, jres.at) = ""
    /\ GetUserByID(users, StringClaim(tok.user_id)) # {}
    /\ ~jres.ok

\* C5 as stated: for claims with a non-empty user id, at any time within the
\* configured access lifetime, ValidateToken(GenerateToken(claims)) succeeds
\* and returns the input's user id, email, name and provider.
C5_RoundTripWithinLifetime ==
    (/\ IssuedAs("access") /\ Answered("ValidateToken")
     /\ origin.claims.UserID # ""
     /\ jres.by = origin.by
     /\ jres.at < origin.at + Lifetime)
    => (jres.ok /\ jres.claims = origin.claims)

\* the claims are text that JSON carries unchanged
ValidText(claims) == \A f \in DOMAIN claims : claims[f] # BadUTF8

\* C5, amended: for claims of valid UTF-8 text with a non-empty user id, at
\* any time from the issue up to, but not including, the whole second that
\* the issue time plus the lifetime falls in, ValidateToken(GenerateToken(
\* claims)) succeeds and returns the input's user id, email, name, provider.
C5_RoundTripUntilWholeSecondExpiry ==
    (/\ IssuedAs("access") /\ Answered("ValidateToken")
     /\ origin.claims.UserID # ""
     /\ ValidText(origin.claims)
     /\ jres.by = origin.by
     /\ jres.at < FromUnix(Unix(origin.at + Lifetime)))
    => (jres.ok /\ jres.claims = origin.claims)

\* a token issued in mid-second has been validated, later, before its expiry
C5_Witness ==
    /\ IssuedAs("access") /\ Answered("ValidateToken")
    /\ origin.claims.UserID # ""
    /\ ValidText(origin.claims)
    /\ jres.by = origin.by
    /\ origin.at % TicksPerSecond # 0
    /\ origin.at < jres.at
    /\ jres.at < FromUnix(Unix(origin.at + Lifetime))
    /\ jres.ok

\* C6: managers constructed with different secrets reject every token the
\* other issued, in ValidateToken and in ValidateRefreshToken, whatever the
\* claims and the time.
C6_OtherSecretRejected ==
    (/\ IssuedAs("access") \/ IssuedAs("refresh")
     /\ Answered("ValidateToken") \/ Answered("ValidateRefreshToken")
     /\ mgr[jres.by].secret # mgr[origin.by].secret)
    => (~jres.ok /\ jres.claims = NoClaims)

\* a refresh token that its issuer would accept has been refused by the
\* ValidateRefreshToken of a manager with another secret
C6_Witness ==
    /\ IssuedAs("refresh") /\ Answered("ValidateRefreshToken")
    /\ mgr[jres.by].secret # mgr[origin.by].secret
    /\ ValidateRefreshToken(mgr[origin.by], tok, jres.at).ok
    /\ ~jres.ok

\* C7: an access token issued at t with lifetime L is accepted by
\* ValidateToken only at times from t to t+L; every ValidateToken call made
\* once the clock has passed t+L fails.
C7_AcceptedOnlyWithinLifetime ==
    (IssuedAs("access") /\ Answered("ValidateToken") /\ jres.ok)
    => (origin.at <= jres.at /\ jres.at <= origin.at + Lifetime)

\* an access token that was accepted by its issuer's rules at issue time is
\* refused, by the same manager, once the clock has passed t+L
C7_Witness ==
    /\ IssuedAs("access") /\ Answered("ValidateToken")
    /\ jres.by = origin.by
    /\ ValidateToken(mgr[origin.by], tok, origin.at).ok
    /\ jres.at > origin.at + Lifetime
    /\ ~jres.ok /\ jres.err = "failed to parse token"

----------------------------------------------------------------------------
(* Claims about the in-process store *)

\* the latest Set of key has not been followed by a Delete of it, and the
\* time is not after that Set's time plus its ttl
Live(key) ==
    /\ key \in DOMAIN latest
    /\ ~latest[key].deleted
    /\ now <= latest[key].at + latest[key].ttl

\* what Get(key) is to return
GetAgrees(key, found, dest) ==
    /\ found <=> Live(key)
    /\ found => dest = latest[key].value

\* C10: after any sequence of Set, Get, Delete, Exists, sweeps and clock
\* advances, Get(k) returns a value iff the latest Set(k, v, ttl) was not
\* followed by Delete(k) and the time is not after that Set's time + ttl,
\* and the value is v: so at every moment, and so in every Get that is made;
\* no live entry is missing from the map.
C10_GetReturnsLatestLiveSet ==
    /\ [](\A k \in Keys :
            LET r == MemorySessionStore_Get(store, k, now)
            IN GetAgrees(k, r.found, r.dest) /\ (Live(k) => k \in DOMAIN store))
    /\ [][/\ \A k \in Keys : Call_Get(k) => GetAgrees(k, sres'.found, sres'.dest)
          /\ \A ks \in SUBSET Keys :
                Call_Exists(ks) => (sres'.found <=> \E k \in ks : Live(k))]_vars

\* between sweeps: a Get has just refused an entry that was set, not deleted,
\* and was still in the map after its expiry, while another entry is live
C10_Witness ==
    /\ sres.op = "Get" /\ sres.err = "key expired" /\ ~sres.found
    /\ \E k \in sres.keys : k \in DOMAIN latest /\ ~latest[k].deleted
    /\ \E k \in Keys : Live(k) /\ now > latest[k].at

----------------------------------------------------------------------------
(* Claims about the locking of the in-process store *)

\* C11: every mutation of the map is made by a caller that holds the
\* exclusive lock, with no other caller inside the map at the same time;
\* none is made under the shared read lock.
C11_MapMutatedOnlyUnderExclusiveLock ==
    mlog.by # "" => (mlog.exclusive /\ mlog.beside = {})

----------------------------------------------------------------------------
(* Claims about sessions *)

\* the last call was GetSession of a session that was created and whose
\* stored ExpiresAt had passed when the call was made
FetchedAfterExpiry ==
    /\ ares # NoARes /\ ares.op = "GetSession"
    /\ SessionKey(ares.sessionID) \in DOMAIN latest
    /\ ares.at > latest[SessionKey(ares.sessionID)].value.ExpiresAt

\* C12: GetSession on a session whose stored expiry has passed returns an
\* error and no session data, and after the call the session's record is not
\* in the store, whether the store had evicted the entry before or not.
C12_ExpiredSessionAbsentAndRemoved ==
    FetchedAfterExpiry =>
        /\ ~ares.ok /\ ares.err # "" /\ ares.data = NoSession
        /\ SessionKey(ares.sessionID) \notin DOMAIN store

\* a session was fetched after its expiry while the store still held and
\* served its record: GetSession itself found it expired
C12_Witness ==
    /\ FetchedAfterExpiry
    /\ ~latest[SessionKey(ares.sessionID)].deleted
    /\ ares.err = "session expired"

\* what GetSession answers for a session id that never existed
ErrSessionNeverExisted == "session not found: key not found"

\* C13: the caller cannot tell an expired session from one that never
\* existed: every GetSession that fails returns the error of a session that
\* never existed.
C13_ExpiredIndistinguishableFromNotFound ==
    (ares # NoARes /\ ares.op = "GetSession" /\ ~ares.ok) => ares.err = ErrSessionNeverExisted

----------------------------------------------------------------------------
(* Claims about the AuthService *)

\* the answer of a SignIn that fails, whatever made it fail
InvalidCredentials(p) ==
    [op |-> "SignIn", ok |-> FALSE, err |-> "invalid credentials", resp |-> NoResponse,
     faults |-> {}, by |-> p]

\* the hash stored with the e-mail: none for a user who came by OAuth
StoredHash(email) == IF email \in DOMAIN passwords THEN passwords[email] ELSE ""

\* the e-mail is of a user whose stored hash is not that of the password
WrongPassword(email, password) ==
    UserExists(users, email) /\ StoredHash(email) # Hash(password)

\* C14: SignIn with an e-mail that is not in the user store and SignIn with an
\* existing e-mail and a wrong password return the same thing, the error
\* "invalid credentials" and no response, and neither creates a session,
\* issues a token or changes a user.
C14_SignInFailuresIndistinguishable ==
    [][\A email \in AuthEmails, password \in Passwords :
          (SignIn(Solo, email, password)
             /\ (~UserExists(users, email) \/ WrongPassword(email, password)))
          => /\ ares' = InvalidCredentials(Solo)
             /\ AuthIdle(Solo)'
             /\ UNCHANGED <<store, nextSession, users, passwords>>]_vars

\* SignIn has failed while every e-mail it may be called with is that of a
\* user: the password was wrong
C14_Witness ==
    /\ ares = InvalidCredentials(Solo)
    /\ \A email \in AuthEmails : UserExists(users, email)

\* the answer of a call that fails with err
Failure(p, op, err) ==
    [op |-> op, ok |-> FALSE, err |-> err, resp |-> NoResponse, faults |-> {}, by |-> p]

\* a success response with both tokens in it
WithTokens(res) ==
    /\ res # NoARes /\ res.ok /\ res.err = "" /\ res.resp # NoResponse
    /\ res.resp.AccessToken # NoToken /\ res.resp.RefreshToken # NoToken

\* C15 as the specification has it: with registration enabled, a SignUp for an
\* e-mail that no SignUp has registered yet (no hash is stored with it) gets
\* past the check of existence.
C15_FirstSignUpSucceeds ==
    [][(SignUp_UserExists(Solo) /\ StoredHash(frame[Solo].email) = "")
          => pc'[Solo] = "SignUp_CreateUser"]_vars

\* C15: with registration enabled, a SignUp for an e-mail that no user of the
\* store has creates the user and succeeds with both tokens; a SignUp for an
\* e-mail that a user of the store has, from a SignUp or from an OAuth sign-in,
\* fails with "user already exists" and changes no user, issues no token and
\* creates no session; with registration disabled every SignUp fails and the
\* user store is not touched.
C15_SignUpOncePerStoredEmail ==
    [][/\ (\E email \in SignUpEmails, password \in SignUpPasswords, name \in Names :
              SignUp(Solo, email, password, name) /\ ~config.AllowSignup)
          => /\ ares' = Failure(Solo, "SignUp", "signup is disabled")
             /\ AuthIdle(Solo)'
             /\ UNCHANGED <<users, passwords, store, nextSession>>
       /\ (SignUp_UserExists(Solo) /\ UserExists(users, frame[Solo].email))
          => /\ config.AllowSignup
             /\ ares' = Failure(Solo, "SignUp", "user already exists")
             /\ AuthIdle(Solo)'
             /\ UNCHANGED <<users, passwords, store, nextSession>>
       /\ (SignUp_UserExists(Solo) /\ ~UserExists(users, frame[Solo].email))
          => pc'[Solo] = "SignUp_CreateUser" /\ UNCHANGED <<users, passwords, frame>>
       /\ SignUp_CreateUser(Solo)
          => /\ pc'[Solo] = "generateAuthResponse"
             /\ ~UserExists(users, frame[Solo].email)
             /\ DOMAIN users' = DOMAIN users \cup {frame[Solo].email}
             /\ users'[frame[Solo].email] = frame'[Solo].user
             /\ passwords' = Put(passwords, frame[Solo].email, Hash(frame[Solo].password))
       /\ (generateAuthResponse_session(Solo) /\ frame[Solo].op = "SignUp")
          => /\ WithTokens(ares') /\ ares'.op = "SignUp"
             /\ ares'.resp.User = users[frame[Solo].email]
             /\ UNCHANGED <<users, passwords>>]_vars

\* a SignUp has been refused for the e-mail that an earlier SignUp registered
C15_Witness ==
    /\ config.AllowSignup
    /\ ares = Failure(Solo, "SignUp", "user already exists")
    /\ \E email \in SignUpEmails : StoredHash(email) = Hash("pw1")

\* what CreateUser of the example's store answers for an e-mail it has
ErrCreateUser(email) == "failed to create user: user with email " \o email \o " already exists"

\* C16: of the concurrent SignUp calls with one e-mail at most one returns a
\* response, and the stored user is then the one of that response; a call that
\* reaches CreateUser when the e-mail is in the store returns an error and no
\* response, and changes no user, issues no token and creates no session.
C16_ConcurrentSignUpOneWinner ==
    /\ [](\A email \in SignUpEmails :
             /\ SignedUp(email) <= 1
             /\ SignedUp(email) = 1 => UserExists(users, email))
    /\ [][\A p \in Callers :
             /\ (SignUp_CreateUser(p) /\ UserExists(users, frame[p].email))
                => /\ ares' = Failure(p, "SignUp", ErrCreateUser(frame[p].email))
                   /\ AuthIdle(p)'
                   /\ UNCHANGED <<users, passwords, store, nextSession, signedUp>>
             /\ generateAuthResponse_session(p)
                => /\ WithTokens(ares')
                   /\ ares'.resp.User = users[frame[p].email]
                   /\ UNCHANGED <<users, passwords>>]_vars

\* both calls were past the check of existence when the first of them created
\* the user: one has returned its response, the other CreateUser's error
C16_Witness ==
    \E p \in Callers, email \in SignUpEmails :
       /\ ares = Failure(p, "SignUp", ErrCreateUser(email))
       /\ SignedUp(email) = 1
       /\ users[email].ID # "u" \o Itoa(nextUser - 1)

\* C17: a call in which the session store's Set failed, or in which UpdateUser
\* failed, has returned a success response with the user and both tokens; and
\* a call in which UpdateUser has failed is on its way to generateAuthResponse.
C17_BestEffortFailuresDoNotAbort ==
    /\ (ares # NoARes /\ ares.faults # {})
          => /\ WithTokens(ares)
             /\ ares.op \in {"SignUp", "SignIn", "OAuthSignIn", "RefreshToken"}
             /\ ares.resp.User # NoUserRecord /\ ares.resp.User.ID # ""
             /\ UserExists(users, ares.resp.User.Email)
    /\ \A p \in Callers :
          (frame[p] # NoFrame /\ frame[p].faults # {})
             => pc[p] = "generateAuthResponse" /\ frame[p].user # NoUserRecord

\* a repeat OAuthSignIn has returned although both UpdateUser and the session
\* store's Set failed in it
C17_Witness ==
    /\ ares # NoARes /\ ares.ok /\ ares.op = "OAuthSignIn"
    /\ ares.faults = {"UpdateUser", "Set"}

\* C18: a SignUp, SignIn, OAuthSignIn or RefreshToken that succeeds while the
\* session store works returns an access token and a refresh token, signed by
\* the service, for the user's id, and leaves the store with exactly one more record:
\* a session with the user's id and e-mail that lives for the configured
\* lifetime of an access token.
C18_SuccessIssuesTokensAndOneSession ==
    [][(generateAuthResponse_session(Solo) /\ "Set" \notin ares'.faults)
          => LET user == frame[Solo].user
                 key == SessionKey(nextSession)
                 access == ares'.resp.AccessToken
                 refresh == ares'.resp.RefreshToken
             IN /\ WithTokens(ares') /\ ares'.resp.User = user
                /\ access.key = mgr[Service].secret /\ refresh.key = mgr[Service].secret
                /\ StringClaim(access.user_id) = user.ID
                /\ StringClaim(access.type) # "refresh"
                /\ StringClaim(refresh.user_id) = user.ID
                /\ StringClaim(refresh.type) = "refresh"
                /\ key \notin DOMAIN store
                /\ DOMAIN store' = DOMAIN store \cup {key}
                /\ \A other \in DOMAIN store : store'[other] = store[other]
                /\ Unmarshal(store'[key].value).UserID = user.ID
                /\ Unmarshal(store'[key].value).Email = user.Email
                /\ store'[key].expiresAt - now = config.JWTExpiration
                /\ Unmarshal(store'[key].value).ExpiresAt - now = config.JWTExpiration]_vars

\* a RefreshToken has succeeded with a working store, and its session is the
\* second one of the store
C18_Witness ==
    /\ ares # NoARes /\ ares.ok /\ ares.op = "RefreshToken" /\ ares.faults = {}
    /\ SessionKey(nextSession - 1) \in DOMAIN store
    /\ Unmarshal(store[SessionKey(nextSession - 1)].value).UserID = ares.resp.User.ID
    /\ Cardinality({key \in DOMAIN store : key[1] = sessionPrefix}) = 2

\* C19: an OAuthSignIn whose callback was valid and came with an e-mail either
\* creates one user, when no user has the e-mail, with the id
\* "<provider>_<provider user id>", the provider as its tag and no password
\* hash, or, when a user has the e-mail, creates none and changes only that
\* user's name, avatar URL and update time; every other user and every
\* password hash stays as it was.
C19_OAuthCreatesOneUserOrRefreshesProfile ==
    [][(OAuthSignIn_user(Solo) /\ ret.err = "" /\ ret.userInfo.Email # "")
          => LET oauthUser == ret.userInfo
                 email == oauthUser.Email
             IN /\ passwords' = passwords
                /\ \A other \in DOMAIN users \ {email} : users'[other] = users[other]
                /\ DOMAIN users' = DOMAIN users \cup {email}
                /\ IF ~UserExists(users, email)
                   THEN /\ users'[email].ID = frame[Solo].provider \o "_" \o oauthUser.ID
                        /\ users'[email].Provider = frame[Solo].provider
                        /\ users'[email].Email = email
                        /\ users'[email].Name = oauthUser.Name
                        /\ users'[email].AvatarURL = oauthUser.AvatarURL
                        /\ email \notin DOMAIN passwords'
                   ELSE /\ users'[email] = [users[email] EXCEPT
                                               !.Name = oauthUser.Name,
                                               !.AvatarURL = oauthUser.AvatarURL,
                                               !.UpdatedAt = now]
                        /\ users'[email].ID = users[email].ID
                        /\ users'[email].Provider = users[email].Provider]_vars

\* the user that SignUp created has signed in with Google: the record has the
\* profile's name and picture, and still its own id, provider tag and hash
C19_Witness ==
    /\ ares # NoARes /\ ares.ok /\ ares.op = "OAuthSignIn"
    /\ UserExists(users, "ann@x")
    /\ users["ann@x"].ID = "u1" /\ users["ann@x"].Provider = ProviderLocal
    /\ users["ann@x"].Name = "Ann" /\ users["ann@x"].AvatarURL = "pic"
    /\ StoredHash("ann@x") = Hash("pw1")

\* the answers of GitHub's endpoints with which the callback finds no e-mail:
\* the profile has none and the list cannot be had or has no verified address
NoUsableGitHubEmail(tokenResp, userResp, emailResp) ==
    /\ exchangeError(tokenResp, userResp) = ""
    /\ userResp.profile.email = ""
    /\ \/ emailResp.kind # "ok"
       \/ \A i \in 1..Len(emailResp.emails) : ~emailResp.emails[i].Verified

\* C20: a GitHub callback whose profile has no e-mail and whose e-mail list
\* has no verified address returns a profile without e-mail, and an
\* OAuthSignIn whose callback returned a profile without e-mail fails with an
\* error, creates and updates no user, issues no token and creates no session.
C20_NoEmailNoSignIn ==
    [][/\ (pc[Solo] = "exchange" /\ req[Solo].provider = ProviderGitHub)
          => \A tokenResp \in TokenResponses,
                userResp \in UserResponses(PrivateProfiles(GitHubProfiles)),
                emailResp \in SignInEmailResponses :
                NoUsableGitHubEmail(tokenResp, userResp, emailResp)
                   => LET called == handleGitHubCallback(req[Solo].code, tokenResp,
                                                         userResp, emailResp)
                      IN called.err = "" /\ called.userInfo.Email = ""
       /\ (OAuthSignIn_user(Solo) /\ ret.err = "" /\ ret.userInfo.Email = "")
          => /\ ares' = Failure(Solo, "OAuthSignIn", "email is required from OAuth provider")
             /\ AuthIdle(Solo)'
             /\ UNCHANGED <<users, passwords, store, nextSession>>]_vars

\* an OAuthSignIn has failed for want of an e-mail, its state consumed
C20_Witness ==
    /\ ares = Failure(Solo, "OAuthSignIn", "email is required from OAuth provider")
    /\ \E state \in DOMAIN issued : passCount[state] = 1

----------------------------------------------------------------------------
(* Claims about the provider exchange *)

\* C21: of a decoded e-mail list getGitHubEmail returns the first entry that is
\* primary and verified when there is one, otherwise the first verified entry,
\* otherwise an error and no address; what it returns without error is the
\* address of a verified entry.
C21_FirstPrimaryVerifiedElseFirstVerified ==
    (ret.op = "getGitHubEmail" /\ ret.emailResp.kind = "ok")
       => LET emails == ret.emailResp.emails
              both == {i \in 1..Len(emails) : emails[i].Primary /\ emails[i].Verified}
              verified == {i \in 1..Len(emails) : emails[i].Verified}
          IN /\ both # {}
                => /\ ret.err = ""
                   /\ \E i \in both : /\ \A k \in both : i <= k
                                      /\ ret.email = emails[i].Email
             /\ (both = {} /\ verified # {})
                => /\ ret.err = ""
                   /\ \E i \in verified : /\ \A k \in verified : i <= k
                                          /\ ret.email = emails[i].Email
             /\ verified = {} => (ret.err # "" /\ ret.email = "")
             /\ ret.err = "" => \E i \in verified : ret.email = emails[i].Email

\* the list begins with a primary address that is not verified and a verified
\* one that is not primary, and the second was returned
C21_Witness ==
    /\ ret.op = "getGitHubEmail" /\ ret.emailResp.kind = "ok"
    /\ Len(ret.emailResp.emails) = 2
    /\ ret.emailResp.emails[1] = [Email |-> "p@x", Primary |-> TRUE, Verified |-> FALSE]
    /\ ret.emailResp.emails[2] = [Email |-> "q@x", Primary |-> FALSE, Verified |-> TRUE]
    /\ ret.email = "q@x" /\ ret.err = ""

----------------------------------------------------------------------------
(* Claims about GetAuthURL *)

\* the client id that the configuration has for the provider, "" for a
\* provider that is not supported
ClientIDOf(provider) ==
    IF provider = ProviderGoogle THEN config.GoogleClientID
    ELSE IF provider = ProviderGitHub THEN config.GitHubClientID
    ELSE ""

\* C22: GetAuthURL returns an error and no URL when the provider has no client
\* id in the configuration or is not supported; when it returns a URL the store
\* has exactly one key more than before, the record under it holds the given
\* redirect URI, and the URL's state parameter is the state of that record and
\* of its key.
C22_AuthURLNeedsClientIDAndStoresItsState ==
    [][\A provider \in Providers, redirectURI \in RedirectURIs :
          GetAuthURL(provider, redirectURI)
             => /\ ClientIDOf(provider) = "" => (ret'.err # "" /\ ret'.url = <<>>)
                /\ ret'.err = ""
                   => LET state == ret'.url[3]
                          key == StateKey(state)
                      IN /\ key \notin DOMAIN store
                         /\ DOMAIN store' = DOMAIN store \cup {key}
                         /\ \A other \in DOMAIN store : store'[other] = store[other]
                         /\ Unmarshal(store'[key].value).State = state
                         /\ Unmarshal(store'[key].value).RedirectURI = redirectURI
                         /\ ret'.url[2] = ClientIDOf(provider)]_vars

\* a URL was returned for the second state issued, whose record is in the store
\* beside the first
C22_Witness ==
    /\ ret.op = "GetAuthURL" /\ ret.err = "" /\ ret.state = 2
    /\ ret.url[3] = 2
    /\ {StateKey(1), StateKey(2)} \subseteq DOMAIN store

\* the answers with which an endpoint that handleGitHubCallback asks has
\* answered with a status that is not 200 or with a body that is not JSON; the
\* e-mail list is asked when the profile came back without e-mail
GitHubEndpointAnsweredBadly(tokenResp, userResp, emailResp) ==
    LET Bad == {"status", "badjson"}
    IN \/ tokenResp.kind \in Bad
       \/ tokenResp.kind = "ok" /\ userResp.kind \in Bad
       \/ /\ exchangeError(tokenResp, userResp) = ""
          /\ userResp.profile.email = ""
          /\ emailResp.kind \in Bad

\* C23: when an endpoint of the provider answers with a non-success status or
\* with malformed JSON, ValidateCallback returns an error and no user info.
C23_EndpointFailureFailsCallback ==
    [][(pc[Solo] = "exchange" /\ req[Solo].provider = ProviderGitHub)
          => \A tokenResp \in TokenResponses,
                userResp \in UserResponses(PrivateProfiles(GitHubProfiles)),
                emailResp \in SignInEmailResponses :
                LET called == handleGitHubCallback(req[Solo].code, tokenResp,
                                                   userResp, emailResp)
                IN (/\ GitHubEndpointAnsweredBadly(tokenResp, userResp, emailResp)
                    /\ ret'.op = "ValidateCallback"
                    /\ ret'.err = called.err
                    /\ ret'.userInfo = called.userInfo)
                      => (ret'.err # "" /\ ret'.userInfo = NoUser)]_vars

\* C24: a ValidateCallback that has begun eventually returns, whether or not
\* the endpoints of the provider answer.
C24_CallbackEventuallyReturns ==
    (pc["c1"] # "idle") ~> (pc["c1"] = "idle")

\* with an answer from the provider assumed, the same call does return
SpecAnswered == SpecLive /\ WF_vars(exchange("c1"))

----------------------------------------------------------------------------
(* Claims about cancellation *)

\* C25: once the context of an OAuthSignIn is done, the call writes and
\* deletes nothing more in the store and sends no further request to the
\* provider: its next step is its return with an error.
C25_NothingAfterCancellation ==
    [][(/\ frame[Solo] # NoFrame
        /\ frame[Solo].op = "OAuthSignIn"
        /\ frame[Solo].ctx = "done")
          => /\ store' = store
             /\ ~exchangeOf(Solo, PrivateProfiles(GoogleProfiles),
                            PrivateProfiles(GitHubProfiles), SignInEmailResponses)
             /\ (frame' # frame => (AuthIdle(Solo)' /\ ~ares'.ok))]_vars

----------------------------------------------------------------------------
(* Claims about logout *)

\* the last call was a sign-in that succeeded and whose session, the last one
\* drawn, is in the store
SignedInWithSession ==
    /\ ares # NoARes /\ ares.ok /\ ares.op = "SignIn" /\ "Set" \notin ares.faults
    /\ SessionKey(nextSession - 1) \in DOMAIN store
    /\ GetSession(store, nextSession - 1, now).ok

\* C26: after a sign-in that succeeded, POST /auth/logout with the access
\* token of the response removes the caller's session from the store, and
\* GetSession of it fails.
C26_LogoutInvalidatesSession ==
    [][(/\ SignedInWithSession
        /\ LogoutHandler(Solo, [scheme |-> "Bearer", token |-> ares.resp.AccessToken]))
          => /\ SessionKey(nextSession - 1) \notin DOMAIN store'
             /\ ~GetSession(store', nextSession - 1, now').ok]_vars

----------------------------------------------------------------------------
(* Claims about the lifetimes of the tokens *)

\* a RefreshToken has answered with a response
RefreshAnswered == jres # NoJRes /\ jres.op = "RefreshToken" /\ jres.ok

----------------------------------------------------------------------------
(* Claims about RefreshToken *)

\* C28: RefreshToken(t) succeeds exactly when t passes ValidateRefreshToken
\* and the user store has the user of its user_id; the tokens and the user of
\* the response then carry that id; when it fails it returns no response,
\* creates no session and leaves the store as it was.
C28_RefreshSucceedsIffValidAndUserFound ==
    [][\A m \in Managers :
          Call_RefreshToken(m)
             => LET v == ValidateRefreshToken(mgr[m], tok, now)
                    found == v.ok /\ GetUserByID(users, v.userID) # {}
                IN /\ jres'.ok <=> found
                   /\ jres'.ok
                         => /\ jres'.resp.User.ID = v.userID
                            /\ StringClaim(jres'.resp.AccessToken.user_id) = v.userID
                            /\ StringClaim(jres'.resp.RefreshToken.user_id) = v.userID
                            /\ jres'.resp.RefreshToken.type = "refresh"
                   /\ ~jres'.ok
                         => /\ jres'.resp = NoResponse
                            /\ jres'.err # ""
                            /\ store' = store
                            /\ nextSession' = nextSession]_vars

\* a RefreshToken has failed for a valid refresh token whose user the store
\* does not have
C28_Witness ==
    /\ jres # NoJRes /\ jres.op = "RefreshToken" /\ ~jres.ok
    /\ jres.err = "user not found"
    /\ origin.kind = "refresh"
    /\ ValidateRefreshToken(mgr[jres.by], tok, jres.at).ok

----------------------------------------------------------------------------
(* Claims about the statelessness of the tokens *)

\* what the secret and the clock alone make of a token's signature and dates
SignedAndCurrent(j, token, t) ==
    /\ token.alg \in HMACAlgs
    /\ token.key = j.secret
    /\ token.exp = AbsentNum \/ t < FromUnix(token.exp)
    /\ token.nbf = AbsentNum \/ ~(t < FromUnix(token.nbf))

\* C29: whether ValidateToken and ValidateRefreshToken accept a token is a
\* matter of the token, the secret and the clock alone, whatever the store
\* holds and whatever has happened: a token that is signed and current is
\* accepted also after its session has been logged out or has expired, and a
\* refresh token also after RefreshToken has used it.
C29_ValidationIsStateless ==
    /\ (jres # NoJRes /\ jres.op = "ValidateToken")
          => (jres.ok <=> /\ SignedAndCurrent(mgr[jres.by], tok, jres.at)
                          /\ StringClaim(tok.user_id) # "")
    /\ (jres # NoJRes /\ jres.op = "ValidateRefreshToken")
          => (jres.ok <=> /\ SignedAndCurrent(mgr[jres.by], tok, jres.at)
                          /\ StringClaim(tok.type) = "refresh"
                          /\ StringClaim(tok.user_id) # "")

\* a refresh token is accepted after RefreshToken has used it and when no
\* session is left in the store
C29_Witness ==
    /\ jres # NoJRes /\ jres.op = "ValidateRefreshToken" /\ jres.ok
    /\ ares # NoARes /\ ares.op = "RefreshToken" /\ ares.ok /\ "Set" \notin ares.faults
    /\ store = EmptyMap
    /\ jres.at = now

----------------------------------------------------------------------------
(* Claims about the two backends *)

\* C30: after the same Sets, Deletes and clock advances the two backends
\* answer alike: every Get finds or misses the key in both and returns the
\* same value, and every Exists returns the same boolean.
C30_BackendsAnswerAlike ==
    /\ sres.op = "Get"
          => (sres.found = sres.redisFound /\ sres.dest = sres.redisDest)
    /\ sres.op = "Exists" => sres.found = sres.redisFound

\* the two backends answer alike as long as no key has been set with TTL zero
TTLZeroSet == \E key \in DOMAIN latest : latest[key].ttl = 0
BackendsAlikeWithoutTTLZero == TTLZeroSet \/ C30_BackendsAnswerAlike

----------------------------------------------------------------------------
(* Claims about the cleanup goroutine *)

\* C31: with the sweep and the clock going on, an entry written to the
\* in-process store with an expiry that the clock comes to pass is eventually
\* gone from the map, without any Get or Delete of its key: the record of an
\* OAuth state whose callback never arrives is removed.
C31_ExpiredEntriesEventuallyRemoved ==
    \A key \in SweptKeys, expiresAt \in 0..(MaxTime - 1) :
       Holds(key, expiresAt) ~> ~Holds(key, expiresAt)

\* the clock has passed the expiry of an OAuth state and the map no longer has
\* its record, while it has the record of another
C31_Witness ==
    /\ store # EmptyMap
    /\ \E state \in DOMAIN issued :
          /\ now > issued[state].ExpiresAt
          /\ StateKey(state) \notin DOMAIN store

----------------------------------------------------------------------------
(* Claims about SignUp followed by SignIn *)

\* C32: a SignUp that succeeds has stored the hash of its password with its
\* e-mail and answers with the stored user; neither that hash nor the id of a
\* stored user ever changes; so, after a SignUp for an e-mail has succeeded, a
\* SignIn with that e-mail and the same password goes on to answer with the
\* user of that e-mail and the same id, and a SignIn with that e-mail and any
\* other password fails.
C32_SignInAfterSignUp ==
    [][/\ (generateAuthResponse_session(Solo) /\ frame[Solo].op = "SignUp")
             => /\ StoredHash(frame[Solo].email) = Hash(frame[Solo].password)
                /\ ares'.ok
                /\ ares'.resp.User = users[frame[Solo].email]
                /\ ares'.resp.User.Email = frame[Solo].email
       /\ \A email \in DOMAIN passwords :
             email \in DOMAIN passwords' /\ passwords'[email] = passwords[email]
       /\ \A email \in DOMAIN users :
             /\ email \in DOMAIN users'
             /\ users'[email].ID = users[email].ID
             /\ users'[email].Email = email
       /\ \A email \in AuthEmails, password \in Passwords :
             (SignIn(Solo, email, password) /\ SignedUp(email) >= 1)
                => IF StoredHash(email) = Hash(password)
                   THEN /\ pc'[Solo] = "generateAuthResponse"
                        /\ frame'[Solo].op = "SignIn"
                        /\ frame'[Solo].user = users[email]
                   ELSE /\ ares' = InvalidCredentials(Solo)
                        /\ AuthIdle(Solo)'
       /\ (generateAuthResponse_session(Solo) /\ frame[Solo].op = "SignIn")
             => /\ ares'.ok
                /\ ares'.resp.User.Email = frame[Solo].email
                /\ ares'.resp.User.ID = users[frame[Solo].email].ID]_vars

\* a SignIn has succeeded for an e-mail that a SignUp had succeeded for
C32_Witness ==
    /\ ares # NoARes /\ ares.op = "SignIn" /\ ares.ok
    /\ SignedUp(ares.resp.User.Email) >= 1
    /\ ares.resp.User = users[ares.resp.User.Email]

----------------------------------------------------------------------------
(* Claims about the redirect URI that a callback returns *)

\* C33: a ValidateCallback that has succeeded returns, with the user info, the
\* redirect URI that was passed to the GetAuthURL call which issued the state
\* it was presented, whatever other states are pending.
C33_CallbackReturnsRedirectURIOfItsState ==
    (ret.op = "ValidateCallback" /\ ret.err = "")
       => /\ ret.state \in DOMAIN issued
          /\ ret.redirectURI = issued[ret.state].RedirectURI
          /\ ret.userInfo # NoUser

\* a callback has succeeded while another state, issued with a different
\* redirect URI, is still pending in the store
C33_Witness ==
    /\ ret.op = "ValidateCallback" /\ ret.err = ""
    /\ \E other \in DOMAIN issued :
          /\ other # ret.state
          /\ StateKey(other) \in DOMAIN store
          /\ issued[other].RedirectURI # ret.redirectURI

----------------------------------------------------------------------------
(* Claims about the middlewares *)

----------------------------------------------------------------------------
(* Claims about the failures of the store in the OAuth flow *)

\* C35 as the spec states it: ValidateCallback never returns success while the
\* record of the state it accepted is still in the store, because a Delete
\* that fails makes it fail.
C35_SuccessOnlyAfterStateDeleted ==
    (ret.op = "ValidateCallback" /\ ret.err = "")
       => StateKey(ret.state) \notin DOMAIN redis

\* what follows from the dropped error: a state is accepted a second time
StateAcceptedOnceOverRedis == \A state \in DOMAIN issued : passCount[state] <= 1

\* C36 as the spec states it: a GetAuthURL that returns an error leaves the
\* store as it was before the call, with no record of an OAuth state added.
C36_FailedGetAuthURLLeavesStore ==
    [][((\E provider \in Providers, redirectURI \in RedirectURIs :
            GetAuthURL(provider, redirectURI)) /\ ret'.err # "")
          => /\ store' = store
             /\ StateKey(ret'.state) \notin DOMAIN store']_vars

----------------------------------------------------------------------------
(* Claims about the OAuth routes *)

\* a callback has been answered with the redirect of a successful sign-in
CallbackSucceeded ==
    /\ http # NoHTTP /\ http.handler = "OAuthCallbackHandler"
    /\ http.status = 307 /\ http.error = ""

\* C37 as the spec states it: after a successful OAuth callback the handler
\* redirects the browser to the redirect URI that was bound to the state when
\* the flow was started.
C37_CallbackRedirectsToURIOfState ==
    CallbackSucceeded
       => /\ http.state \in DOMAIN issued
          /\ http.location = issued[http.state].RedirectURI

----------------------------------------------------------------------------
(* Claims about the lifetime that a response announces *)

\* C38 as the spec states it: in every authentication response expires_in is
\* the number of seconds between the iat and the exp of its access token, and
\* the session created with it lives as long, also when Config.JWTExpiration
\* has been changed after NewAuthService.
C38_ExpiresInIsTokenAndSessionLifetime ==
    [][generateAuthResponse_session(Solo)
          => LET resp == ares'.resp
                 key == SessionKey(nextSession)
                 seconds == resp.AccessToken.exp - resp.AccessToken.iat
             IN /\ resp.ExpiresIn = seconds
                /\ key \in DOMAIN store'
                      => /\ store'[key].expiresAt - now = FromUnix(seconds)
                         /\ Unmarshal(store'[key].value).ExpiresAt
                               - Unmarshal(store'[key].value).CreatedAt
                            = FromUnix(seconds)]_vars

\* as long as Config.JWTExpiration is a whole number of seconds and the value
\* that NewAuthService saw, the three lifetimes agree
LifetimesAgreeWithoutChange ==
    [][(generateAuthResponse_session(Solo)
        /\ config.JWTExpiration = mgr[Service].expiresIn
        /\ config.JWTExpiration % TicksPerSecond = 0)
          => LET resp == ares'.resp
                 key == SessionKey(nextSession)
                 seconds == resp.AccessToken.exp - resp.AccessToken.iat
             IN /\ resp.ExpiresIn = seconds
                /\ key \in DOMAIN store'
                      => store'[key].expiresAt - now = FromUnix(seconds)]_vars

----------------------------------------------------------------------------
(* Claims about the users that OAuthSignIn creates *)

\* the e-mail is of a user whom the store has no password hash for, as
\* OAuthSignIn creates it: GetUserByEmail returns "" for its hash
OAuthUser(email) == email \in DOMAIN users /\ StoredHash(email) = ""

\* C39: a user stored with the empty password hash, as OAuthSignIn creates
\* it, keeps the empty hash, and SignIn with its e-mail fails with "invalid
\* credentials" for every password, the empty one included.
C39_OAuthUserCannotSignInWithPassword ==
    [][/\ \A email \in AuthEmails : OAuthUser(email) => OAuthUser(email)'
       /\ \A email \in AuthEmails, password \in Passwords :
             (SignIn(Solo, email, password) /\ OAuthUser(email))
                => /\ ares' = InvalidCredentials(Solo)
                   /\ AuthIdle(Solo)']_vars

\* every user there is was created by OAuthSignIn, each of the e-mails of
\* SignIn belongs to one of them, and a SignIn has failed
C39_Witness ==
    /\ ares = InvalidCredentials(Solo)
    /\ \A email \in AuthEmails :
          OAuthUser(email) /\ users[email].Provider # ProviderLocal

----------------------------------------------------------------------------
(* Claims about the adapters *)

\* the request has been answered with 401, or the next handler was called
RequestAnswered ==
    IF http = NoHTTP THEN FALSE
    ELSE (http.status = 401 /\ ~http.next) \/ (http.status = 200 /\ http.next)

\* C40 as the spec states it: through the Gin adapter every request to a route
\* behind the generic AuthMiddleware terminates, with a 401 response or with
\* the call of the next handler.
C40_GinRequestTerminates == InFlight({"gin"}) ~> RequestAnswered

\* through the adapters of Echo and of net/http every such request does
OtherAdaptersTerminate == InFlight({"echo", "stdlib"}) ~> RequestAnswered

\* no call of GetHeader through the Gin adapter ever returns
GinNeverAnswers ==
    (IF http = NoHTTP THEN FALSE ELSE http.adapter = "gin") => ~RequestAnswered

====
